---- MODULE Spec2Model ----
(***************************************************************************)
(* A model of the nso_vault repository: the recursive Drive walk and the   *)
(* per-folder video pipeline of video_processor/services.py, and the pure  *)
(* text functions it relies on (link de-duplication, field extraction,     *)
(* zone / market extraction).                                              *)
(***************************************************************************)
EXTENDS Integers, Sequences, FiniteSets, TLC

\* ------------------------------------------------------------------ bounds
MaxFolders == 3      \* folders of the remote tree (folder 1 is the root)
MaxPptx == 2         \* PPTX files a trigger folder can hold
PageSize == 2        \* most entries on one page of a files().list result
MaxFaults == 1       \* remote / local calls that fail in one run
MaxFound == 3       \* items found in one PPTX, for the de-duplication alone
MaxParagraphs == 2  \* paragraphs on a first slide, for the zone and market alone
MaxSlides == 2      \* slides of a presentation, for extract_data_from_ppt alone
MaxShapes == 3      \* shapes on a slide, for extract_data_from_ppt alone
MaxRows == 2        \* rows of a table, for the link extraction alone
MaxRuns == 2        \* runs of the worker on the same tree
MaxEntries == 2     \* entries a Drive folder holds before the calls
MaxUploads == 2     \* calls of the uploader, one after the other
MaxCallers == 2     \* runs that call find_or_create_folder at the same time
MaxNameLen == 3     \* characters of a file name given to sanitize_filename
MaxMessages == 2    \* messages of one Gmail search
MaxParts == 2       \* attachments of one message
MaxColumn == 5      \* rows of the column given to process_batches
BatchSize == 2      \* batch_size of process_batches
CountCap == 2        \* history counters saturate here

\* ----------------------------------------------------------------- helpers
Min(a, b) == IF a < b THEN a ELSE b

Bump(n) == IF n < CountCap THEN n + 1 ELSE n

RECURSIVE Perms(_)
Perms(S) ==
    IF S = {} THEN {<<>>}
    ELSE UNION {{<<x>> \o p : p \in Perms(S \ {x})} : x \in S}

Range(s) == {s[i] : i \in 1..Len(s)}

VARIABLES
    parent,          \* the remote tree: parent[f] is f's parent, 0 for the root
    pptx,            \* pptx[f]: number of non-trashed PPTX files directly in f
    doc,             \* the (name, link) items found in a PPTX, before dedup
    runState,        \* run_recursive_video_automation: where the run is
    stack,           \* the call stack of crawl: frames [folder, pc, todo]
    exc,             \* an exception is propagating
    proc,            \* the running process_video_links_internal, or idle
    scratch,         \* the scratch directory: [exists, files]
    remote,          \* remote[f]: names of the video files uploaded into f
    faults,          \* failed calls so far
    visits,          \* visits[f]: times crawl entered f
    calls,           \* calls[f]: times process_video_links_internal ran on f
    caught,          \* <<folder, pc>>: the crawl frames that caught an exception
    enumerated,      \* enumerated[f]: the sub-folders crawl(f) got from the listing
    moreSubs,        \* folders whose sub-folder page came with a nextPageToken
    noPptxDeclared,  \* folders crawl declared to hold no PPTX
    listedPptx,      \* the page find_pptx_in_drive_folder got, in this pipeline run
    pptxDownloaded,  \* the PPTX files downloaded in this pipeline run
    scanned,         \* the PPTX files scanned for links in this pipeline run
    handled,         \* handled[l]: times this pipeline run handled link l
    linkLog,         \* linkLog[l]: what this pipeline run did for link l, in order
    run              \* the run of the worker: its number, and remote as it began

walkVars == <<parent, pptx, doc, runState, stack, exc, proc, scratch, remote,
              faults, visits, calls, caught, enumerated, moreSubs,
              noPptxDeclared, listedPptx, pptxDownloaded, scanned, handled,
              linkLog, run>>

\* the state of one call of extract_all_potential_links, from the point where
\* the slides have been read
VARIABLES
    found_links_with_names,   \* the (name, link) items in the order found
    unique_links_with_names,  \* the dict of the loop, in insertion order
    dedupNext,                \* index of the item the loop handles next
    dedupResult               \* the returned list, once returned

dedupVars == <<found_links_with_names, unique_links_with_names, dedupNext,
               dedupResult>>

\* the state of one call of get_market_and_zone_name_from_ppt or of
\* get_market_name_prefix
VARIABLES
    first_slide,   \* the paragraphs of the first slide, if there is a slide
    zoneCall,      \* the function called, "none" before the call
    zoneResult     \* what the call returned

zoneVars == <<first_slide, zoneCall, zoneResult>>

\* the state of one call of extract_data_from_ppt
VARIABLES
    extractPc,      \* "start", "slides", "shapes" or "returned"
    slidesLeft,     \* slides of the presentation not yet looked at
    target_slide,   \* the slide whose title matched, if one did
    shapeNext,      \* index of the shape of the target slide handled next
    results         \* the mapping extract_data_from_ppt builds and returns

extractVars == <<extractPc, slidesLeft, target_slide, shapeNext, results>>

\* the state of one call of extract_all_potential_links (services.py) or of
\* extract_all_potential_links_from_last_slide (uploader/utils.py), from the
\* point where the presentation has been opened
VARIABLES
    link_variant,   \* "services" or "utils"
    link_shapes,    \* the shapes the call iterates over
    link_next,      \* index of the shape handled next
    link_found,     \* found_links_with_names of this call
    link_result,    \* the returned list, once returned
    link_file,      \* what is at the path: "missing", "notpptx", "unreadable",
                    \* "noslides" or "ok"
    link_exc        \* "none", or an exception "caught" or "raised" to the caller

linkVars == <<link_variant, link_shapes, link_next, link_found, link_result,
              link_file, link_exc>>

\* one parent folder of the Drive, with the calls of upload_file_to_drive and
\* of find_or_create_folder that work on it
VARIABLES
    drive,          \* the entries under the parent; an entry's id is its index
    drive_before,   \* drive before the first call
    api_faults,     \* failed requests so far
    up_variant,     \* "views", "services" or "utils": the uploader called
    up_pc,          \* "search", "store" or "done"
    up_existing,    \* existing_file_id of the running call, 0 for None
    up_ids,         \* what the calls so far returned, 0 for None
    fo_pc,          \* fo_pc[c]: where caller c of find_or_create_folder is
    fo_result       \* fo_result[c]: what the call of c returned, 0 for None

apiVars == <<drive, drive_before, api_faults, up_variant, up_pc, up_existing,
             up_ids, fo_pc, fo_result>>

\* one call of sanitize_filename
VARIABLES
    san_filename,   \* the argument
    san_result      \* what the call returned, once it returned

sanVars == <<san_filename, san_result>>

\* one request to check_email_and_upload
VARIABLES
    em_request,     \* [parent, auth]: the form has a folder id, both services built
    em_messages,    \* the messages of the Gmail search, in order
    em_pc,          \* "start", "download", "process", "cleanup", "returned"
    em_i,           \* position in the messages
    em_files,       \* downloaded_files of the message at hand
    em_j,           \* position in em_files
    em_results,     \* all_results
    em_cleanup,     \* dirs_to_cleanup still to visit
    em_dirs,        \* em_dirs[i]: the temporary directory made for message i
    em_response     \* "none", "400", "500", "empty", "results"

emailVars == <<em_request, em_messages, em_pc, em_i, em_files, em_j,
               em_results, em_cleanup, em_dirs, em_response>>

\* one call of the credential provider
VARIABLES
    au_variant,     \* "services" or "utils": which of the two providers
    au_env,         \* what the call meets: the token file and how each step ends
    au_pc,          \* "load", "refresh", "flow", "save", "build", "done"
    au_creds,       \* creds: "none", "valid", "refreshable", "unrefreshable"
    au_flowed,      \* the interactive consent flow was started
    au_saved,       \* what was written to the token file, "nothing" if nothing
    au_result       \* "pending", "none", "raised", or the credentials the
                    \* returned service was built from

authVars == <<au_variant, au_env, au_pc, au_creds, au_flowed, au_saved,
              au_result>>

\* executions of process_video_links_internal that run at the same time
VARIABLES
    sh_path,        \* sh_path[p]: temp_download_dir of execution p
    sh_name,        \* sh_name[p]: the file name of the video p downloads
    sh_pc,          \* sh_pc[p]: "setup", "makedirs", "download", "upload",
                    \* "finally", "done"
    sh_disk,        \* sh_disk[path]: [exists, files] of the directory
    sh_lost,        \* sh_lost[p]: whose removal deleted the file p had
                    \* downloaded and not yet uploaded: "no", "startup",
                    \* "cleanup"
    sh_uploaded     \* sh_uploaded[p]: p uploaded its video

shareVars == <<sh_path, sh_name, sh_pc, sh_disk, sh_lost, sh_uploaded>>

\* one request to process_webm_to_mp4
VARIABLES
    cv_env,         \* what the request meets: the upload and how each step ends
    cv_pc,          \* "start", "mkdtemp", "save", "convert", "respond",
                    \* "finally", "stream", "done"
    cv_dir,         \* temp_dir: "none", "exists", "removed", "rmtree_failed"
    cv_bound,       \* the local name response is bound
    cv_response     \* "none", "400", "500", "file"

convertVars == <<cv_env, cv_pc, cv_dir, cv_bound, cv_response>>

\* one call of process_batches
VARIABLES
    rb_column,      \* df_column: the input rows
    rb_i,           \* i, the offset of the batch at hand
    rb_replies,     \* what the model call gave for each batch so far
    rb_results,     \* all_results
    rb_pc           \* "loop" or "returned"

batchVars == <<rb_column, rb_i, rb_replies, rb_results, rb_pc>>

\* the variables each of the other specifications leaves alone
notDedup == <<walkVars, zoneVars, extractVars, linkVars, apiVars, sanVars,
              emailVars, authVars, shareVars, convertVars, batchVars>>

notZone == <<walkVars, dedupVars, extractVars, linkVars, apiVars, sanVars,
             emailVars, authVars, shareVars, convertVars, batchVars>>

notExtract == <<walkVars, dedupVars, zoneVars, linkVars, apiVars, sanVars,
                emailVars, authVars, shareVars, convertVars, batchVars>>

notLinks == <<walkVars, dedupVars, zoneVars, extractVars, apiVars, sanVars,
              emailVars, authVars, shareVars, convertVars, batchVars>>

notApi == <<walkVars, dedupVars, zoneVars, extractVars, linkVars, sanVars,
            emailVars, authVars, shareVars, convertVars, batchVars>>

notSan == <<walkVars, dedupVars, zoneVars, extractVars, linkVars, apiVars,
            emailVars, authVars, shareVars, convertVars, batchVars>>

notEmail == <<walkVars, dedupVars, zoneVars, extractVars, linkVars, apiVars,
              sanVars, authVars, shareVars, convertVars, batchVars>>

notAuth == <<walkVars, dedupVars, zoneVars, extractVars, linkVars, apiVars,
             sanVars, emailVars, shareVars, convertVars, batchVars>>

notShare == <<walkVars, dedupVars, zoneVars, extractVars, linkVars, apiVars,
              sanVars, emailVars, authVars, convertVars, batchVars>>

notConvert == <<walkVars, dedupVars, zoneVars, extractVars, linkVars,
                apiVars, sanVars, emailVars, authVars, shareVars, batchVars>>

notBatch == <<walkVars, dedupVars, zoneVars, extractVars, linkVars, apiVars,
              sanVars, emailVars, authVars, shareVars, convertVars>>

\* the variables the walk leaves alone
pureVars == <<dedupVars, zoneVars, extractVars, linkVars, apiVars, sanVars,
              emailVars, authVars, shareVars, convertVars, batchVars>>

vars == <<walkVars, pureVars>>

Folders == 1..MaxFolders

Root == 1

Children(f) == {g \in Folders : parent[g] = f}

\* the trees over Folders: every folder but the root hangs under an earlier one
Trees == {p \in [Folders -> 0..MaxFolders] :
             /\ p[Root] = 0
             /\ \A f \in Folders \ {Root} : p[f] \in 1..(f - 1)}

\* ------------------------------------------------------ the listing API
\* files().list(...).execute() is called once and only 'files' is read: the
\* caller gets the first page of the result. A page holds at most PageSize
\* entries and the server may end it earlier; what it leaves out comes
\* behind the nextPageToken.
FirstPages(items) ==
    IF items = <<>> THEN {<<>>}
    ELSE {SubSeq(items, 1, k) : k \in 1..Min(PageSize, Len(items))}

PptxPages(f) == UNION {FirstPages(items) : items \in Perms(1..pptx[f])}

SubfolderPages(f) == UNION {FirstPages(items) : items \in Perms(Children(f))}


\* ------------------------------------------------ text as character lists
\* A text is a sequence of one-character strings, so that the regular
\* expressions of the source can be evaluated position by position.
\* An optional value: Python's None, or a text
NoText == [some |-> FALSE, val |-> <<>>]

SomeText(t) == [some |-> TRUE, val |-> t]

LowerLetters == <<"a","b","c","d","e","f","g","h","i","j","k","l","m",
                  "n","o","p","q","r","s","t","u","v","w","x","y","z">>

UpperLetters == <<"A","B","C","D","E","F","G","H","I","J","K","L","M",
                  "N","O","P","Q","R","S","T","U","V","W","X","Y","Z">>

\* re.IGNORECASE compares characters after case folding
Fold(c) ==
    IF \E k \in 1..Len(UpperLetters) : UpperLetters[k] = c
    THEN LowerLetters[CHOOSE k \in 1..Len(UpperLetters) : UpperLetters[k] = c]
    ELSE c

\* \s of the re module and the whitespace of str.strip(), for the characters
\* that occur in the texts
IsSpace(c) == c \in {" ", "\n", "\t", "\r", "\f"}

\* \d
IsDigit(c) == c \in {"0","1","2","3","4","5","6","7","8","9"}

\* the literal lit occurs in text at position i (case-insensitive if fold)
LiteralAt(text, i, lit, fold) ==
    /\ i >= 1
    /\ i + Len(lit) - 1 <= Len(text)
    /\ \A k \in 1..Len(lit) :
          IF fold THEN Fold(text[i + k - 1]) = Fold(lit[k])
                  ELSE text[i + k - 1] = lit[k]

\* greedy \s* from position i: the first position at or after i that holds
\* no white space (Len(text) + 1 when the text ends first)
RECURSIVE SkipSpaces(_, _)
SkipSpaces(text, i) ==
    IF i <= Len(text) /\ IsSpace(text[i]) THEN SkipSpaces(text, i + 1) ELSE i

\* greedy \d* from position i
RECURSIVE SkipDigits(_, _)
SkipDigits(text, i) ==
    IF i <= Len(text) /\ IsDigit(text[i]) THEN SkipDigits(text, i + 1) ELSE i

\* the least position in lo..hi that satisfies Test, 0 when there is none
LeastFrom(lo, hi, Test(_)) ==
    IF \E i \in lo..hi : Test(i)
    THEN CHOOSE i \in lo..hi : Test(i) /\ \A j \in lo..(i - 1) : ~Test(j)
    ELSE 0

\* str.strip()
RECURSIVE RStrip(_)
RStrip(text) ==
    IF text # <<>> /\ IsSpace(text[Len(text)])
    THEN RStrip(SubSeq(text, 1, Len(text) - 1))
    ELSE text

Strip(text) ==
    LET i == SkipSpaces(text, 1) IN RStrip(SubSeq(text, i, Len(text)))

\* one match of \s*\[Image \d+\]\s* that starts at position i: the position
\* after the match, 0 when the pattern does not match at i
ImageToken == <<"[", "I", "m", "a", "g", "e", " ">>

ImageMatchEnd(text, i) ==
    LET j == SkipSpaces(text, i)
        d == j + Len(ImageToken)
        e == SkipDigits(text, d)
    IN  IF /\ LiteralAt(text, j, ImageToken, FALSE)
           /\ e > d
           /\ e <= Len(text)
           /\ text[e] = "]"
        THEN SkipSpaces(text, e + 1)
        ELSE 0

\* re.sub(r'\s*\[Image \d+\]\s*', '', text)
RECURSIVE StripImagePlaceholders(_)
StripImagePlaceholders(text) ==
    LET Hit(i) == ImageMatchEnd(text, i) # 0
        i == LeastFrom(1, Len(text), Hit)
    IN  IF i = 0 THEN text
        ELSE SubSeq(text, 1, i - 1)
             \o StripImagePlaceholders(
                    SubSeq(text, ImageMatchEnd(text, i), Len(text)))

\* ------------------------------------------- zone and market extraction
ZoneKey == <<"Z","O","N","E">>
StateKey == <<"S","T","A","T","E">>
CityKey == <<"C","I","T","Y">>
PinCodeKey == <<"P","I","N"," ","C","O","D","E">>
BdKey == <<"B","D","-">>
AddKey == <<"A","d","d","_">>

\* ZONE\s*:\s* matched from position i: the position where group 1 starts,
\* 0 when it does not match at i
ZoneHeadEnd(text, i) ==
    LET j == SkipSpaces(text, i + Len(ZoneKey)) IN
    IF /\ LiteralAt(text, i, ZoneKey, TRUE)
       /\ j <= Len(text)
       /\ text[j] = ":"
    THEN SkipSpaces(text, j + 1)
    ELSE 0

\* $ without re.MULTILINE: the end of the string, or just before a newline
\* that ends the string
AtEndOfString(text, p) ==
    \/ p = Len(text) + 1
    \/ p = Len(text) /\ text[p] = "\n"

\* (?:\s*STATE|\s*CITY|\s*PIN CODE|$) matches from position p
ZoneTerminatorAt(text, p) ==
    LET q == SkipSpaces(text, p) IN
    \/ LiteralAt(text, q, StateKey, TRUE)
    \/ LiteralAt(text, q, CityKey, TRUE)
    \/ LiteralAt(text, q, PinCodeKey, TRUE)
    \/ AtEndOfString(text, p)

\* re.search(r"ZONE\s*:\s*(.*?)(?:\s*STATE|\s*CITY|\s*PIN CODE|$)", text,
\* re.IGNORECASE | re.DOTALL): group 1 of the leftmost match; with re.DOTALL
\* the lazy group runs over newlines up to the first terminator
ZoneMatch(text) ==
    LET Starts(i) == ZoneHeadEnd(text, i) # 0
        i == LeastFrom(1, Len(text), Starts)
    IN  IF i = 0 THEN NoText
        ELSE LET k == ZoneHeadEnd(text, i)
                 Term(p) == ZoneTerminatorAt(text, p)
                 p == LeastFrom(k, Len(text) + 1, Term)
             IN  SomeText(SubSeq(text, k, p - 1))

\* zone_match.group(1).strip(), then the [Image N] placeholders removed
CleanValue(t) == Strip(StripImagePlaceholders(Strip(t)))

\* ^ under re.MULTILINE
AtLineStart(text, i) == i = 1 \/ (i > 1 /\ i <= Len(text) + 1 /\ text[i - 1] = "\n")

\* the end of the line that holds position i: the position of its newline,
\* or Len(text) + 1
EndOfLine(text, i) ==
    LET Nl(e) == e = Len(text) + 1 \/ text[e] = "\n" IN
    LeastFrom(i, Len(text) + 1, Nl)

\* ^<zone>\s*\d_.*?_.*$ matched from position i: the position after the
\* match, 0 when it does not match at i
ZoneMarketEnd(text, zone, i) ==
    LET j == SkipSpaces(text, i + Len(zone)) IN
    IF /\ AtLineStart(text, i)
       /\ LiteralAt(text, i, zone, TRUE)
       /\ j + 1 <= Len(text)
       /\ IsDigit(text[j])
       /\ text[j + 1] = "_"
       /\ \E m \in (j + 2)..(EndOfLine(text, j + 2) - 1) : text[m] = "_"
    THEN EndOfLine(text, j + 2)
    ELSE 0

\* ^BD-.*$ or ^Add_.*$ (key) matched from position i
FixedMarketEnd(text, key, i) ==
    IF AtLineStart(text, i) /\ LiteralAt(text, i, key, TRUE)
    THEN EndOfLine(text, i + Len(key))
    ELSE 0

\* the market pattern matched from position i; alternatives in their order.
\* fixed is TRUE for the pattern of drive_uploader/views.py, which adds the
\* alternatives ^BD-.*$ and ^Add_.*$.
MarketEnd(text, zone, fixed, i) ==
    IF ZoneMarketEnd(text, zone, i) # 0 THEN ZoneMarketEnd(text, zone, i)
    ELSE IF fixed /\ FixedMarketEnd(text, BdKey, i) # 0
         THEN FixedMarketEnd(text, BdKey, i)
    ELSE IF fixed THEN FixedMarketEnd(text, AddKey, i)
    ELSE 0

\* re.search(market_pattern, slide_text, re.IGNORECASE | re.MULTILINE):
\* group 0 of the leftmost match
MarketMatch(text, zone, fixed) ==
    LET Hit(i) == MarketEnd(text, zone, fixed, i) # 0
        i == LeastFrom(1, Len(text), Hit)
    IN  IF i = 0 THEN NoText
        ELSE SomeText(SubSeq(text, i, MarketEnd(text, zone, fixed, i) - 1))

\* the test "if zone_name:" that guards the market search
ZoneUsableAlways(zone_name) == TRUE

ZoneUsable(zone_name) == zone_name # <<>>

\* get_market_and_zone_name_from_ppt on the text of the first slide:
\* [market, zone, searched]; searched tells whether the market search ran
GetMarketAndZone(text, fixed) ==
    LET zm == ZoneMatch(text) IN
    IF ~zm.some
    THEN [market |-> NoText, zone |-> NoText, searched |-> FALSE]
    ELSE LET zone_name == CleanValue(zm.val) IN
         IF ZoneUsable(zone_name)
         THEN LET mm == MarketMatch(text, zone_name, fixed) IN
              [market |-> IF mm.some THEN SomeText(CleanValue(mm.val)) ELSE NoText,
               zone |-> SomeText(zone_name),
               searched |-> TRUE]
         ELSE [market |-> NoText, zone |-> SomeText(zone_name), searched |-> FALSE]

\* uploader/utils.py
GetMarketAndZone_utils(text) == GetMarketAndZone(text, FALSE)

\* drive_uploader/views.py
GetMarketAndZone_views(text) == GetMarketAndZone(text, TRUE)

\* full_market_name.rsplit('_', 1)[1].strip()
AfterLastUnderscore(name) ==
    LET Us == {i \in 1..Len(name) : name[i] = "_"}
        last == CHOOSE i \in Us : \A k \in Us : k <= i
    IN  Strip(SubSeq(name, last + 1, Len(name)))

\* DriveHelper.get_market_name_prefix on the text of the first slide:
\* [prefix, searched]
GetMarketNamePrefix(text) ==
    LET zm == ZoneMatch(text) IN
    IF ~zm.some THEN [prefix |-> <<>>, searched |-> FALSE]
    ELSE LET zone_name == CleanValue(zm.val) IN
         IF ~ZoneUsable(zone_name) THEN [prefix |-> <<>>, searched |-> FALSE]
         ELSE LET mm == MarketMatch(text, zone_name, FALSE)
                  full == CleanValue(mm.val)
              IN  IF ~mm.some THEN [prefix |-> <<>>, searched |-> TRUE]
                  ELSE IF \E i \in 1..Len(full) : full[i] = "_"
                       THEN [prefix |-> AfterLastUnderscore(full), searched |-> TRUE]
                       ELSE [prefix |-> full, searched |-> TRUE]

\* ------------------------------------------------- links and their names
DriveLink == "https://drive.google.com/file/d/A1/view"
YoutubeLink == "https://youtu.be/abc123"
YoutubeLink2 == "https://www.youtube.com/watch?v=xyz789"
OtherLink == "https://example.com/video"
BothLink == "https://drive.google.com/uc?id=B2&ref=youtu.be/q1"

Links == {DriveLink, YoutubeLink, YoutubeLink2, OtherLink, BothLink}

\* google_drive_file_id_pattern.search(link)
DriveMatch(link) == link \in {DriveLink, BothLink}

\* youtube_pattern.search(link)
YoutubeMatch(link) == link \in {YoutubeLink, YoutubeLink2, BothLink}

\* the branch order, were the YouTube pattern tried first
ClassifyYoutubeFirst(link) ==
    IF YoutubeMatch(link) THEN "external"
    ELSE IF DriveMatch(link) THEN "internal"
    ELSE "unsupported"

\* "if drive_match: ... elif youtube_match: ... else: ..."
Classify(link) ==
    IF DriveMatch(link) THEN "internal"
    ELSE IF YoutubeMatch(link) THEN "external"
    ELSE "unsupported"

Item(name, link) == [name |-> name, link |-> link]

\* Python truth value of a name (an optional text): None and the empty
\* string are false
Truthy(name) == name.some /\ name.val # <<>>

\* position of link in the dict unique_links_with_names (insertion order), or 0
IndexOfLink(unique, link) ==
    IF \E i \in 1..Len(unique) : unique[i].link = link
    THEN CHOOSE i \in 1..Len(unique) : unique[i].link = link
    ELSE 0

\* the test, were it on None alone instead of on the truth value
ReplacesEntryNonNull(name, kept) == name.some /\ ~kept.some

\* the test of the de-duplication loop for an item whose link is already a key
ReplacesEntry(name, kept) == Truthy(name) /\ ~Truthy(kept)

\* one iteration of the de-duplication loop
DedupStep(unique, item) ==
    LET i == IndexOfLink(unique, item.link) IN
    IF i = 0 THEN Append(unique, item)
    ELSE IF ReplacesEntry(item.name, unique[i].name)
         THEN [unique EXCEPT ![i] = item]
         ELSE unique

RECURSIVE DedupFrom(_, _, _)
DedupFrom(found, i, unique) ==
    IF i > Len(found) THEN unique
    ELSE DedupFrom(found, i + 1, DedupStep(unique, found[i]))

\* list(unique_links_with_names.values())
DeduplicateLinks(found) == DedupFrom(found, 1, <<>>)

\* --------------------------------------------------- names of the videos
MinVideoSize == 1024

\* the characters of the class [\\/:*?"<>|]
IllegalNameChars == {"\\", "/", ":", "*", "?", "\"", "<", ">", "|"}

\* re.sub(r'[\\/:*?"<>|]', '', name).strip()
CleanName(name) ==
    Strip(SelectSeq(name, LAMBDA c : c \notin IllegalNameChars))

SanitizedDownload == <<"s","a","n","i","t","i","z","e","d","_","d","o","w","n","l","o","a","d">>

\* sanitize_filename: the illegal characters and \n \r \t become "_"
sanitize_filename(filename) ==
    LET safe == Strip([i \in 1..Len(filename) |->
                         IF filename[i] \in IllegalNameChars \cup {"\n", "\r", "\t"}
                         THEN "_" ELSE filename[i]])
    IN  IF safe = <<>> THEN SanitizedDownload ELSE safe

\* prefix_for_filename
PrefixForFilename(raw) ==
    IF raw # <<>> THEN CleanName(raw) \o <<" ">> ELSE <<>>

\* files().get(fileId, fields='name,mimeType'), split by os.path.splitext
DriveFileName(link) ==
    IF link = DriveLink THEN [base |-> <<"c","l","i","p">>, ext |-> <<".","m","o","v">>]
    ELSE [base |-> <<"p","r","o","m","o">>, ext |-> <<".","m","p","4">>]

YoutubeDefaultName == <<"y","o","u","t","u","b","e","_","v","i","d","e","o">>

Mp4Ext == <<".","m","p","4">>

\* "suggested_name or <default>"
NameOr(suggested, default) ==
    IF suggested.some /\ suggested.val # <<>> THEN suggested.val ELSE default

\* final_video_name_for_drive, for a link that matches the Drive pattern
DriveFinalName(prefix, suggested, link) ==
    prefix \o CleanName(NameOr(suggested, DriveFileName(link).base))
           \o DriveFileName(link).ext

\* final_video_name_for_drive, for a link that matches the YouTube pattern
YoutubeFinalName(prefix, suggested) ==
    prefix \o CleanName(NameOr(suggested, YoutubeDefaultName)) \o Mp4Ext

\* check_file_exists: a non-trashed file of that name is in the folder
check_file_exists(file_name, folder_id) ==
    \E i \in 1..Len(remote[folder_id]) : remote[folder_id][i] = file_name

\* ------------------------------------------------------- the documents
NameAcme == <<"A","c","m","e">>

NameStoreA == <<"S","t","o","r","e"," ","A">>

TextNorthDelhi == <<"Z","O","N","E"," ",":"," ","N","o","r","t","h"," ","S","T","A","T","E"," ",":"," ","D","L","\n","N","o","r","t","h"," ","1","_","D","e","l","h","i","_","M","a","r","k","e","t","\n">>

\* what a PPTX of the tree holds: the text of its first slide, the (name,
\* link) items its slides yield in the order they are found, and the value
\* get_market_name_prefix returns for that text
Document(text, found) ==
    [text |-> text, found |-> found,
     market_name_prefix_raw |-> GetMarketNamePrefix(text).prefix]

WalkDocs ==
    { Document(<<>>, <<>>),
      Document(TextNorthDelhi, <<Item(NoText, YoutubeLink)>>),
      Document(<<>>, <<Item(NoText, DriveLink),
                       Item(SomeText(NameAcme), DriveLink),
                       Item(NoText, OtherLink)>>),
      Document(<<>>, <<Item(NoText, BothLink), Item(NoText, OtherLink)>>) }

\* DriveHelper.extract_all_potential_links on a readable document
extract_all_potential_links(d) == DeduplicateLinks(d.found)

\* ------------------------------------------------------ state of the run
Frame(f) == [folder |-> f, pc |-> "listpptx", todo |-> <<>>]

Top == stack[Len(stack)]

SetTop(fr) == [stack EXCEPT ![Len(stack)] = fr]

Pop == SubSeq(stack, 1, Len(stack) - 1)

Idle == [pc |-> "idle", folder |-> 0, pptxId |-> 0, prefix |-> <<>>,
         links |-> <<>>, idx |-> 0, processed |-> {}, finalName |-> <<>>,
         size |-> 0, raising |-> FALSE]

\* a scratch directory: whether it exists, the files in it, and how the
\* rmtree of the last finally clause that met it ended
NoScratch == [exists |-> FALSE, files |-> {}, rmtree |-> "none"]

\* os.makedirs(temp_download_dir)
NewScratch == [exists |-> TRUE, files |-> {}, rmtree |-> "none"]

\* the finally clause, were it to leave the directory alone
AfterRmtreeKept(s, o) == s

\* shutil.rmtree(temp_download_dir) in the finally clause: the directory is
\* gone, or the OSError is logged and the directory stays
AfterRmtree(s, o) ==
    IF o = "ok" THEN [NoScratch EXCEPT !.rmtree = "done"]
    ELSE [s EXCEPT !.rmtree = "failed"]

\* the outcomes of a call: "ok", or one of the failures in bad while the
\* run may still meet a failure
Outcomes(bad) == {"ok"} \cup (IF faults < MaxFaults THEN bad ELSE {})

Failed(o) == IF o = "ok" THEN 0 ELSE 1

\* what no step of a run changes
envVars == <<parent, pptx, doc, run>>

\* the first run of the worker, on folders that hold no video yet
FirstRun == [n |-> 1, before |-> [f \in Folders |-> <<>>]]

crawlHist == <<visits, caught, enumerated, moreSubs, noPptxDeclared>>

pipeHist == <<listedPptx, pptxDownloaded, scanned, handled, linkLog>>

\* the history of one pipeline run, empty between two runs
ClearPipeHist ==
    /\ listedPptx' = <<>>
    /\ pptxDownloaded' = {}
    /\ scanned' = {}
    /\ handled' = <<>>
    /\ linkLog' = <<>>

\* documents with links are walked in the trees whose root alone holds PPTX
\* files; documents without links in every tree
DocAllowed ==
    doc.found = <<>> \/ \A f \in Folders \ {Root} : pptx[f] = 0

\* the trigger folders of a tree hold the same number of PPTX files
PptxLayouts ==
    {[f \in Folders |-> IF f \in T THEN n ELSE 0] :
        T \in SUBSET Folders, n \in 1..MaxPptx}

\* ------------------------------------------------ extract_data_from_ppt
SLIDE_TITLE == <<"C","o","m","m","e","r","c","i","a","l"," ","T","e","r","m","s">>

KeyCatchmentName == <<"C","a","t","c","h","m","e","n","t"," ","N","a","m","e"," ",":">>

KeyStoreSize == <<"S","t","o","r","e"," ","S","i","z","e">>

KeyRentPerSqft == <<"R","e","n","t"," ","p","e","r"," ","S","q",".","f","t">>

KeyTotalRent == <<"T","o","t","a","l"," ","R","e","n","t"," ","+"," ","M","a","i","n","t","e","n","a","n","c","e">>

KeyProto == <<"P","R","O","T","O"," ","(","i","n"," ","l","a","k","h","s",")">>

KeyGeoIQ == <<"G","e","o","I","Q"," ","R","e","v","e","n","u","e"," ","P","r","o","j","e","c","t","i","o","n"," ","2","0","2","5"," ","(","i","n"," ","l","a","k","h","s",")">>

KEYS_TO_FIND ==
    <<KeyCatchmentName, KeyStoreSize, KeyRentPerSqft, KeyTotalRent, KeyProto,
      KeyGeoIQ>>

NOT_FOUND == <<"N","/","A">>

ErrorKey == <<"e","r","r","o","r">>

CannotOpen == <<"[","E","R","R","O","R",":"," ","C","a","n","n","o","t"," ","o","p","e","n"," ","P","P","T","X","]">>

SlideNotFound == <<"[","E","R","R","O","R",":"," ","S","l","i","d","e"," ","w","i","t","h"," ","t","i","t","l","e"," ","'","C","o","m","m","e","r","c","i","a","l"," ","T","e","r","m","s","'"," ","n","o","t"," ","f","o","u","n","d","]">>

\* str.rstrip(':')
RECURSIVE RStripColons(_)
RStripColons(t) ==
    IF t # <<>> /\ t[Len(t)] = ":" THEN RStripColons(SubSeq(t, 1, Len(t) - 1))
    ELSE t

\* key.strip().rstrip(':'), before re.escape; each of its spaces becomes \s*
\* in the pattern and every other character stands for itself
KeyClean(key) == RStripColons(Strip(key))

\* key_clean matched from position i of text, from its k-th character on: the
\* position after the match, 0 when it does not match
RECURSIVE KeyEnd(_, _, _, _)
KeyEnd(text, i, kc, k) ==
    IF k > Len(kc) THEN i
    ELSE IF kc[k] = " " THEN KeyEnd(text, SkipSpaces(text, i), kc, k + 1)
    ELSE IF i <= Len(text) /\ Fold(text[i]) = Fold(kc[k])
         THEN KeyEnd(text, i + 1, kc, k + 1)
         ELSE 0

\* (?:\s*:?\s*) from position i: the position where group 1 starts
ValueStart(text, i) ==
    LET a == SkipSpaces(text, i)
        b == IF a <= Len(text) /\ text[a] = ":" THEN a + 1 ELSE a
    IN  SkipSpaces(text, b)

\* (.*?)(?:\n|\||$) from position i: the position after group 1
RECURSIVE ValueEnd(_, _)
ValueEnd(text, i) ==
    IF i > Len(text) \/ text[i] \in {"\n", "|"} THEN i
    ELSE ValueEnd(text, i + 1)

\* extract_field_value(full_text, key): the value, or None
extract_field_value(full_text, key) ==
    LET kc == KeyClean(key)
        Hit(i) == KeyEnd(full_text, i, kc, 1) # 0
        i == LeastFrom(1, Len(full_text), Hit)
    IN  IF i = 0 THEN NoText
        ELSE LET p == ValueStart(full_text, KeyEnd(full_text, i, kc, 1))
                 final_value == Strip(SubSeq(full_text, p, ValueEnd(full_text, p) - 1))
             IN  IF final_value = <<>> THEN NoText ELSE SomeText(final_value)

\* results = {key: "" for key in KEYS_TO_FIND}
EmptyResults == [key \in Range(KEYS_TO_FIND) |-> <<>>]

\* results['error'] = ...
WithError(res, message) ==
    [key \in DOMAIN res \cup {ErrorKey} |->
        IF key = ErrorKey THEN message ELSE res[key]]

\* a shape with a text frame, a table (the texts of its cells, row by row), or
\* a shape with neither
TextShape(text) == [kind |-> "text", text |-> text, cells |-> <<>>]

TableShape(cells) == [kind |-> "table", text |-> <<>>, cells |-> cells]

PictureShape == [kind |-> "picture", text |-> <<>>, cells |-> <<>>]

\* table_text += cell.text_frame.text.strip() + '\n'
RECURSIVE TableText(_)
TableText(cells) ==
    IF cells = <<>> THEN <<>>
    ELSE Strip(Head(cells)) \o <<"\n">> \o TableText(Tail(cells))

\* the text the keys are searched in, for a shape that holds text
ShapeText(shape) ==
    IF shape.kind = "text" THEN Strip(shape.text) ELSE TableText(shape.cells)

\* "if not results.get(key) or results[key] == 'N/A'"
Unset(value) == value = <<>> \/ value = NOT_FOUND

\* the loop over KEYS_TO_FIND for one shape of the target slide
ScanShape(res, shape) ==
    IF shape.kind = "picture" THEN res
    ELSE [key \in DOMAIN res |->
             LET value == extract_field_value(ShapeText(shape), key) IN
             IF Unset(res[key]) /\ value.some THEN value.val ELSE res[key]]

\* the final loop, were it to leave the empty values alone
FillNothing(res) == res

\* "if not results.get(key): results[key] = 'N/A'"
FillNotFound(res) ==
    [key \in DOMAIN res |-> IF res[key] = <<>> THEN NOT_FOUND ELSE res[key]]

\* lit occurs in text, both lowered
ContainsLowered(text, lit) ==
    \E i \in 1..Len(text) : LiteralAt(text, i, lit, TRUE)

\* str.split('\n')[0]
FirstLine(text) ==
    LET Nl(i) == text[i] = "\n"
        i == LeastFrom(1, Len(text), Nl)
    IN  IF i = 0 THEN text ELSE SubSeq(text, 1, i - 1)

\* the title of a slide: the text of its title placeholder when it has one
\* (the placeholder is the first shape), else the first line of the first
\* shape when that shape has a text frame, else empty
SlideTitle(slide) ==
    IF slide.hasTitle THEN Strip(slide.shapes[1].text)
    ELSE IF slide.shapes # <<>> /\ slide.shapes[1].kind = "text"
         THEN FirstLine(Strip(slide.shapes[1].text))
         ELSE <<>>

\* "if slide_title and SLIDE_TITLE.lower() in slide_title.lower()"
TitleMatches(slide) ==
    SlideTitle(slide) # <<>> /\ ContainsLowered(SlideTitle(slide), SLIDE_TITLE)

\* the texts of the shapes of a slide
TitleCommercial == <<"C","o","m","m","e","r","c","i","a","l"," ","T","e","r","m","s">>

TitleOverview == <<"O","v","e","r","v","i","e","w","\n","C","O","M","M","E","R","C","I","A","L"," ","T","E","R","M","S"," ","2","0","2","5">>

TextSizeAndRent == <<"S","t","o","r","e"," ","S","i","z","e"," ",":"," ","1","2","0","0"," ","|"," ","R","e","n","t"," ","p","e","r"," ","S","q",".","f","t"," ",":"," ","8","5">>

TextCatchmentProto == <<"C","a","t","c","h","m","e","n","t"," ","N","a","m","e"," ",":","\n","P","R","O","T","O"," ","(","i","n"," ","l","a","k","h","s",")","|","1","2">>

CellStoreSize == <<"s","t","o","r","e"," "," ","s","i","z","e">>

CellNine == <<" ","9","0","0"," ">>

CellGeoIQ == <<"G","e","o","I","Q"," ","R","e","v","e","n","u","e"," ","P","r","o","j","e","c","t","i","o","n"," ","2","0","2","5"," ","(","i","n"," ","l","a","k","h","s",")">>

CellNA == <<"N","/","A">>

CellTotalRent == <<"T","o","t","a","l"," ","R","e","n","t"," ","+"," ","M","a","i","n","t","e","n","a","n","c","e">>

Shapes ==
    {TextShape(TitleCommercial), TextShape(TitleOverview),
     TextShape(TextSizeAndRent), TextShape(TextCatchmentProto),
     TableShape(<<CellStoreSize, CellNine>>),
     TableShape(<<CellGeoIQ, CellNA, CellTotalRent, <<>>>>),
     PictureShape}

\* a slide: its shapes, and whether the first of them is a title placeholder
\* with a text frame
Slides ==
    {sl \in {[hasTitle |-> t, shapes |-> sh] :
                t \in BOOLEAN,
                sh \in UNION {[1..n -> Shapes] : n \in 0..MaxShapes}} :
        sl.hasTitle => sl.shapes # <<>> /\ sl.shapes[1].kind = "text"}

NoSlide == [some |-> FALSE, val |-> [hasTitle |-> FALSE, shapes |-> <<>>]]

\* no call of extract_data_from_ppt is being followed
ExtractAtRest ==
    /\ extractPc = "start"
    /\ slidesLeft = 0
    /\ target_slide = NoSlide
    /\ shapeNext = 1
    /\ results = EmptyResults

\* ----------------------------------------- the items found on the slides
KwName == <<"n","a","m","e">>

KwStore == <<"s","t","o","r","e">>

KwMarket == <<"m","a","r","k","e","t">>

\* the words that make a header cell the name column
NameKeywords(variant) ==
    IF variant = "services" THEN {KwName, KwStore, KwMarket} ELSE {KwName}

\* a table cell: the text get_text_from_cell returns before strip(), and the
\* links find_urls_in_text_content finds in it, in order
Cell(text, links) == [text |-> text, links |-> links]

\* a shape with an action hyperlink, a shape with a text frame holding links,
\* or a table (its rows, each a sequence of cells)
ActionShape(link) == [kind |-> "action", links |-> <<link>>, rows |-> <<>>]

LinkTextShape(links) == [kind |-> "text", links |-> links, rows |-> <<>>]

LinkTableShape(rows) == [kind |-> "table", links |-> <<>>, rows |-> rows]

RECURSIVE Flatten(_)
Flatten(ss) == IF ss = <<>> THEN <<>> ELSE Head(ss) \o Flatten(Tail(ss))

\* the header loop: the index of the first header cell whose lowered text
\* holds a keyword, 0 for name_col_idx = -1
NameColIdx(rows, variant) ==
    IF rows = <<>> THEN 0
    ELSE LET IsNameCell(i) ==
                 \E kw \in NameKeywords(variant) :
                     ContainsLowered(Strip(rows[1][i].text), kw)
         IN  LeastFrom(1, Len(rows[1]), IsNameCell)

\* current_row_name
RowName(row, name_col_idx) ==
    IF name_col_idx # 0 /\ name_col_idx <= Len(row)
    THEN SomeText(Strip(row[name_col_idx].text))
    ELSE NoText

\* "for cell in row.cells: find_urls_in_text_content(cell.text_frame, name)"
RowItems(row, name) ==
    Flatten([c \in 1..Len(row) |->
                [k \in 1..Len(row[c].links) |-> Item(name, row[c].links[k])]])

\* the first row the loop over table.rows takes items from: services.py
\* takes every row, uploader/utils.py skips row 0
FirstRowScanned(variant) == IF variant = "services" THEN 1 ELSE 2

\* the items one table appends to found_links_with_names
TableItems(rows, variant) ==
    LET idx == NameColIdx(rows, variant) IN
    Flatten([r \in 1..Len(rows) |->
                IF r < FirstRowScanned(variant) THEN <<>>
                ELSE RowItems(rows[r], RowName(rows[r], idx))])

\* the items one shape appends to found_links_with_names
ShapeItems(shape, variant) ==
    IF shape.kind = "table" THEN TableItems(shape.rows, variant)
    ELSE [k \in 1..Len(shape.links) |-> Item(NoText, shape.links[k])]

\* ------------------------------------------------------- a Drive folder
\* an entry of the parent folder
Entry(name, folder, trashed) ==
    [name |-> name, folder |-> folder, trashed |-> trashed, version |-> 1]

\* no call of the uploader or of find_or_create_folder is being followed
ApiAtRest ==
    /\ drive = <<>>
    /\ drive_before = <<>>
    /\ api_faults = 0
    /\ up_variant = "views"
    /\ up_pc = "done"
    /\ up_existing = 0
    /\ up_ids = <<>>
    /\ fo_pc = <<>>
    /\ fo_result = <<>>

\* no call of sanitize_filename is being followed
SanAtRest ==
    /\ san_filename = <<>>
    /\ san_result = [some |-> FALSE, val |-> <<>>]

\* no request to check_email_and_upload is being followed
EmailAtRest ==
    /\ em_request = [parent |-> TRUE, auth |-> TRUE]
    /\ em_messages = <<>>
    /\ em_pc = "returned"
    /\ em_i = 1
    /\ em_files = <<>>
    /\ em_j = 1
    /\ em_results = <<>>
    /\ em_cleanup = {}
    /\ em_dirs = <<>>
    /\ em_response = "empty"

\* no call of the credential provider is being followed
AuthAtRest ==
    /\ au_variant = "services"
    /\ au_env = <<>>
    /\ au_pc = "done"
    /\ au_creds = "none"
    /\ au_flowed = FALSE
    /\ au_saved = "nothing"
    /\ au_result = "none"

\* no concurrent executions are being followed
ShareAtRest ==
    /\ sh_path = <<>>
    /\ sh_name = <<>>
    /\ sh_pc = <<>>
    /\ sh_disk = <<>>
    /\ sh_lost = <<>>
    /\ sh_uploaded = <<>>

\* no request to process_webm_to_mp4 is being followed
ConvertAtRest ==
    /\ cv_env = <<>>
    /\ cv_pc = "done"
    /\ cv_dir = "none"
    /\ cv_bound = FALSE
    /\ cv_response = "400"

\* no call of process_batches is being followed
BatchAtRest ==
    /\ rb_column = <<>>
    /\ rb_i = 0
    /\ rb_replies = <<>>
    /\ rb_results = <<>>
    /\ rb_pc = "returned"

\* no call of the link extraction is being followed
LinksAtRest ==
    /\ link_variant = "services"
    /\ link_shapes = <<>>
    /\ link_next = 1
    /\ link_found = <<>>
    /\ link_result = [some |-> FALSE, val |-> <<>>]
    /\ link_file = "ok"
    /\ link_exc = "none"

NotReturned == [some |-> FALSE, val |-> <<>>]

Returns(val) == [some |-> TRUE, val |-> val]

\* no call of extract_all_potential_links is being followed
DedupAtRest ==
    /\ found_links_with_names = <<>>
    /\ unique_links_with_names = <<>>
    /\ dedupNext = 1
    /\ dedupResult = NotReturned

\* no zone or market is being extracted
ZoneAtRest ==
    /\ first_slide = [some |-> FALSE, val |-> <<>>]
    /\ zoneCall = "none"
    /\ zoneResult = [market |-> NoText, zone |-> NoText, prefix |-> <<>>,
                     searched |-> FALSE]

WalkInit ==
    /\ BatchAtRest
    /\ ConvertAtRest
    /\ ShareAtRest
    /\ AuthAtRest
    /\ EmailAtRest
    /\ SanAtRest
    /\ parent \in Trees
    /\ pptx \in PptxLayouts
    /\ doc \in WalkDocs
    /\ runState = "start"
    /\ stack = <<>>
    /\ exc = FALSE
    /\ proc = Idle
    /\ scratch = [f \in Folders |-> NoScratch]
    /\ remote = [f \in Folders |-> <<>>]
    /\ faults = 0
    /\ visits = [f \in Folders |-> 0]
    /\ calls = [f \in Folders |-> 0]
    /\ caught = {}
    /\ enumerated = <<>>
    /\ moreSubs = {}
    /\ noPptxDeclared = {}
    /\ listedPptx = <<>>
    /\ pptxDownloaded = {}
    /\ scanned = {}
    /\ handled = <<>>
    /\ linkLog = <<>>
    /\ run = FirstRun
    /\ DocAllowed
    /\ DedupAtRest
    /\ ZoneAtRest
    /\ ExtractAtRest
    /\ LinksAtRest
    /\ ApiAtRest

\* ------------------------------------------- run_recursive_video_automation
\* get_authenticated_drive_service, then crawl(root_folder_id, "ROOT"); the
\* authentication gives a service, gives None, or raises (the console flow,
\* the token file and build() are outside any try)
Run_Authenticate ==
    /\ runState = "start"
    /\ \E o \in Outcomes({"none", "error"}) :
          /\ faults' = faults + Failed(o)
          /\ IF o = "ok"
             THEN /\ runState' = "walking"
                  /\ stack' = <<Frame(Root)>>
                  /\ visits' = [visits EXCEPT ![Root] = Bump(@)]
             ELSE /\ runState' = IF o = "none" THEN "autherror"
                                 ELSE "authraised"
                  /\ UNCHANGED <<stack, visits>>
    /\ UNCHANGED <<envVars, exc, proc, scratch, remote, calls, caught,
                   enumerated, moreSubs, noPptxDeclared, pipeHist>>
    /\ UNCHANGED pureVars

StartPipeline(f) == [Idle EXCEPT !.pc = "auth", !.folder = f]

\* crawl, step 1: list the PPTX files of the folder and, when the page holds
\* one, call process_video_links_internal
crawl_ListPptx ==
    /\ runState = "walking" /\ ~exc /\ stack # <<>> /\ Top.pc = "listpptx"
    /\ \E o \in Outcomes({"error"}), pptx_files \in PptxPages(Top.folder) :
          /\ faults' = faults + Failed(o)
          /\ IF o = "error"
             THEN /\ exc' = TRUE
                  /\ UNCHANGED <<stack, proc, calls, noPptxDeclared>>
             ELSE IF pptx_files # <<>>
             THEN /\ calls' = [calls EXCEPT ![Top.folder] = Bump(@)]
                  /\ proc' = StartPipeline(Top.folder)
                  /\ stack' = SetTop([Top EXCEPT !.pc = "process"])
                  /\ UNCHANGED <<exc, noPptxDeclared>>
             ELSE /\ noPptxDeclared' = noPptxDeclared \cup {Top.folder}
                  /\ stack' = SetTop([Top EXCEPT !.pc = "listsub"])
                  /\ UNCHANGED <<exc, proc, calls>>
    /\ UNCHANGED <<envVars, runState, scratch, remote, visits, caught,
                   enumerated, moreSubs, pipeHist>>
    /\ UNCHANGED pureVars

\* crawl, step 2: list the sub-folders of the folder
crawl_ListSubfolders ==
    /\ runState = "walking" /\ ~exc /\ stack # <<>> /\ Top.pc = "listsub"
    /\ \E o \in Outcomes({"error"}), subfolders \in SubfolderPages(Top.folder) :
          /\ faults' = faults + Failed(o)
          /\ IF o = "error"
             THEN /\ exc' = TRUE
                  /\ UNCHANGED <<stack, enumerated, moreSubs>>
             ELSE /\ stack' = SetTop([Top EXCEPT !.pc = "loop",
                                                 !.todo = subfolders])
                  /\ enumerated' = (Top.folder :> subfolders) @@ enumerated
                  /\ moreSubs' = IF Len(subfolders) < Cardinality(Children(Top.folder))
                                 THEN moreSubs \cup {Top.folder} ELSE moreSubs
                  /\ UNCHANGED exc
    /\ UNCHANGED <<envVars, runState, proc, scratch, remote, visits, calls,
                   caught, noPptxDeclared, pipeHist>>
    /\ UNCHANGED pureVars

\* what is left of the sub-folder list after the loop took its first entry
RestStuck(todo) == todo

Rest(todo) == Tail(todo)

\* crawl, the loop "for folder in subfolders: crawl(folder['id'], ...)"
crawl_Recurse ==
    /\ runState = "walking" /\ ~exc /\ stack # <<>>
    /\ Top.pc = "loop" /\ Top.todo # <<>>
    /\ stack' = Append(SetTop([Top EXCEPT !.todo = Rest(Top.todo)]),
                       Frame(Head(Top.todo)))
    /\ visits' = [visits EXCEPT ![Head(Top.todo)] = Bump(@)]
    /\ UNCHANGED <<envVars, runState, exc, proc, scratch, remote, faults,
                   calls, caught, enumerated, moreSubs, noPptxDeclared,
                   pipeHist>>
    /\ UNCHANGED pureVars

\* crawl returns after its loop
crawl_Return ==
    /\ runState = "walking" /\ ~exc /\ stack # <<>>
    /\ Top.pc = "loop" /\ Top.todo = <<>>
    /\ stack' = Pop
    /\ UNCHANGED <<envVars, runState, exc, proc, scratch, remote, faults,
                   crawlHist, calls, pipeHist>>
    /\ UNCHANGED pureVars

\* the statements of crawl that its "try ... except Exception" encloses
TryCoversListingOnly(pc) == pc \in {"listpptx", "listsub", "loop"}

TryCovers(pc) == pc \in {"listpptx", "process", "listsub", "loop"}

\* an exception leaves the innermost crawl: caught by its except clause, or
\* passed on to the caller
crawl_Unwind ==
    /\ runState = "walking" /\ exc
    /\ IF stack = <<>>
       THEN /\ runState' = "raised"
            /\ exc' = FALSE
            /\ UNCHANGED <<stack, caught>>
       ELSE /\ stack' = Pop
            /\ exc' = ~TryCovers(Top.pc)
            /\ caught' = IF TryCovers(Top.pc)
                         THEN caught \cup {<<Top.folder, Top.pc>>} ELSE caught
            /\ UNCHANGED runState
    /\ UNCHANGED <<envVars, proc, scratch, remote, faults, visits, calls,
                   enumerated, moreSubs, noPptxDeclared, pipeHist>>
    /\ UNCHANGED pureVars

\* crawl(root) returned: "RECURSIVE AUTOMATION COMPLETE"
Run_Complete ==
    /\ runState = "walking" /\ ~exc /\ stack = <<>>
    /\ runState' = "complete"
    /\ UNCHANGED <<envVars, stack, exc, proc, scratch, remote, faults,
                   crawlHist, calls, pipeHist>>
    /\ UNCHANGED pureVars

\* --------------------------------------------- process_video_links_internal
InPipeline(pc) == runState = "walking" /\ ~exc /\ proc.pc = pc

\* the pipeline returns to crawl, which goes on to list the sub-folders
ReturnToCrawl ==
    /\ proc' = Idle
    /\ stack' = SetTop([Top EXCEPT !.pc = "listsub"])

\* control leaves the try block: with an exception (re-raised after the
\* finally clause) or by a return
Leave(raising) == [proc EXCEPT !.pc = "finally", !.raising = raising]

\* get_authenticated_drive_service; without a service the function returns
Pipeline_Authenticate ==
    /\ InPipeline("auth")
    /\ \E o \in Outcomes({"none", "error"}) :
          /\ faults' = faults + Failed(o)
          /\ IF o = "ok"
             THEN proc' = [proc EXCEPT !.pc = "setup"] /\ UNCHANGED <<stack, exc>>
             ELSE IF o = "none"
             THEN ReturnToCrawl /\ UNCHANGED exc
             ELSE proc' = Idle /\ exc' = TRUE /\ UNCHANGED stack
    /\ UNCHANGED <<envVars, runState, scratch, remote, crawlHist, calls,
                   pipeHist>>
    /\ UNCHANGED pureVars

\* step 1: remove what an earlier run left and create the scratch directory
Pipeline_Setup ==
    /\ InPipeline("setup")
    /\ \E o \in Outcomes({"oserror"}) :
          /\ faults' = faults + Failed(o)
          /\ IF o = "ok"
             THEN /\ scratch' = [scratch EXCEPT ![proc.folder] = NewScratch]
                  /\ proc' = [proc EXCEPT !.pc = "find"]
             ELSE /\ proc' = Leave(TRUE)
                  /\ UNCHANGED scratch
    /\ UNCHANGED <<envVars, runState, stack, exc, remote, crawlHist, calls,
                   pipeHist>>
    /\ UNCHANGED pureVars

\* find_pptx_in_drive_folder returns items[0] of the page it got
FindPptxPickLast(items) == items[Len(items)]

FindPptxPick(items) == items[1]

\* step 2: find_pptx_in_drive_folder; an HttpError gives (None, None)
Pipeline_FindPptx ==
    /\ InPipeline("find")
    /\ \E o \in Outcomes({"httperror", "error"}),
          items \in PptxPages(proc.folder) :
          /\ faults' = faults + Failed(o)
          /\ IF o = "error"
             THEN proc' = Leave(TRUE) /\ UNCHANGED listedPptx
             ELSE IF o = "httperror"
             THEN proc' = Leave(FALSE) /\ UNCHANGED listedPptx
             ELSE /\ listedPptx' = items
                  /\ proc' = IF items = <<>>
                             THEN Leave(FALSE)
                             ELSE [proc EXCEPT
                                     !.pc = "download_pptx",
                                     !.pptxId = FindPptxPick(items)]
    /\ UNCHANGED <<envVars, runState, stack, exc, scratch, remote, crawlHist,
                   calls, pptxDownloaded, scanned, handled, linkLog>>
    /\ UNCHANGED pureVars

PptxLocalName == <<"p", "p", "t", "x">>

\* step 3: download the PPTX into the scratch directory
Pipeline_DownloadPptx ==
    /\ InPipeline("download_pptx")
    /\ \E o \in Outcomes({"failed"}) :
          /\ faults' = faults + Failed(o)
          /\ IF o = "ok"
             THEN /\ scratch' = [scratch EXCEPT ![proc.folder].files =
                                    @ \cup {PptxLocalName}]
                  /\ pptxDownloaded' =
                        pptxDownloaded \cup {proc.pptxId}
                  /\ proc' = [proc EXCEPT !.pc = "extract"]
             ELSE /\ proc' = Leave(FALSE)
                  /\ UNCHANGED <<scratch, pptxDownloaded>>
    /\ UNCHANGED <<envVars, runState, stack, exc, remote, crawlHist, calls,
                   listedPptx, scanned, handled, linkLog>>
    /\ UNCHANGED pureVars

\* step 4: the market prefix and the links of the downloaded PPTX
Pipeline_Extract ==
    /\ InPipeline("extract")
    /\ proc' = [proc EXCEPT
                  !.pc = "links",
                  !.prefix = PrefixForFilename(doc.market_name_prefix_raw),
                  !.links = extract_all_potential_links(doc),
                  !.idx = 1,
                  !.processed = {}]
    /\ scanned' = scanned \cup {proc.pptxId}
    /\ UNCHANGED <<envVars, runState, stack, exc, scratch, remote, faults,
                   crawlHist, calls, listedPptx, pptxDownloaded, handled,
                   linkLog>>
    /\ UNCHANGED pureVars

\* the for loop moves to its next item
NextIdx(i) == i + 1

\* the loop, were a link that failed given another attempt
ContinueRetrying == [proc EXCEPT !.pc = "video_download"]

\* "continue", or the end of the loop body: on to the next link
Continue == [proc EXCEPT !.pc = "links", !.idx = NextIdx(proc.idx)]

CountHandled(link) ==
    IF link \in DOMAIN handled
    THEN [handled EXCEPT ![link] = Bump(@)]
    ELSE (link :> 1) @@ handled

\* the log of link l with the steps added; "held" records that the folder
\* held the destination name when the existence query was sent
Logged(l, steps) ==
    IF l \in DOMAIN linkLog
    THEN [linkLog EXCEPT ![l] = @ \o steps]
    ELSE (l :> steps) @@ linkLog

\* what the loop does for a link up to the download: the branch taken, the
\* metadata request of the Drive branch, and the existence query with what
\* check_file_exists returned (False also when it caught an HttpError)
FirstSteps(link, name, o) ==
    LET held  == IF check_file_exists(name, proc.folder)
                 THEN <<"held">> ELSE <<>>
        query == held \o
                 (IF o = "exists_error" THEN <<"exists_raised">>
                  ELSE IF o = "exists_httperror" THEN <<"exists_false">>
                  ELSE IF check_file_exists(name, proc.folder)
                       THEN <<"exists_true">> ELSE <<"exists_false">>)
    IN  IF Classify(link) = "internal"
        THEN IF o \in {"meta_httperror", "meta_error"}
             THEN <<"internal", "meta_raised">>
             ELSE <<"internal", "meta">> \o query
        ELSE IF Classify(link) = "external" THEN <<"external">> \o query
        ELSE <<"unsupported">>

\* step 5, one item of the loop up to the download: classify the link,
\* compute the destination name and ask whether the folder holds it
Pipeline_LinkBegin ==
    /\ InPipeline("links")
    /\ proc.idx <= Len(proc.links)
    /\ LET item == proc.links[proc.idx]
           link == item.link
           seen == [proc EXCEPT !.processed = @ \cup {link}]
           bad  == IF link \in proc.processed THEN {}
                   ELSE IF Classify(link) = "internal"
                   THEN {"meta_httperror", "meta_error", "exists_httperror",
                         "exists_error"}
                   ELSE IF Classify(link) = "external"
                   THEN {"exists_httperror", "exists_error"}
                   ELSE {}
           name == IF Classify(link) = "internal"
                   THEN DriveFinalName(proc.prefix, item.name, link)
                   ELSE YoutubeFinalName(proc.prefix, item.name)
       IN  \E o \in Outcomes(bad) :
              /\ faults' = faults + Failed(o)
              /\ handled' = IF link \in proc.processed THEN handled
                            ELSE CountHandled(link)
              /\ linkLog' = IF link \in proc.processed THEN linkLog
                            ELSE Logged(link, FirstSteps(link, name, o))
              /\ proc' =
                   IF link \in proc.processed THEN Continue
                   ELSE IF Classify(link) = "unsupported"
                   THEN [seen EXCEPT !.idx = NextIdx(proc.idx)]
                   ELSE IF o \in {"meta_error", "exists_error"}
                   THEN [seen EXCEPT !.pc = "finally", !.raising = TRUE]
                   ELSE IF o = "meta_httperror"
                   THEN [seen EXCEPT !.idx = NextIdx(proc.idx)]
                   ELSE IF o = "ok" /\ check_file_exists(name, proc.folder)
                   THEN [seen EXCEPT !.idx = NextIdx(proc.idx)]
                   ELSE [seen EXCEPT !.pc = "video_download",
                                     !.finalName = name]
    /\ UNCHANGED <<envVars, runState, stack, exc, scratch, remote, crawlHist,
                   calls, listedPptx, pptxDownloaded, scanned>>
    /\ UNCHANGED pureVars

\* the link the loop is at
CurrentLink == proc.links[proc.idx].link

\* the sizes a downloaded file can have, around the 1024-byte guard
VideoSizes == {MinVideoSize - 1, MinVideoSize}

\* download_file_from_drive / download_youtube_video into the scratch
\* directory; a failure is reported as (False, None)
Pipeline_VideoDownload ==
    /\ InPipeline("video_download")
    /\ \E o \in Outcomes({"failed"}), size \in VideoSizes :
          /\ faults' = faults + Failed(o)
          /\ IF o = "ok"
             THEN /\ scratch' = [scratch EXCEPT ![proc.folder].files =
                                    @ \cup {sanitize_filename(proc.finalName)}]
                  /\ proc' = [proc EXCEPT !.pc = "video_upload", !.size = size]
                  /\ linkLog' = Logged(CurrentLink,
                                       IF size < MinVideoSize
                                       THEN <<"downloaded_small">>
                                       ELSE <<"downloaded">>)
             ELSE /\ proc' = Continue
                  /\ linkLog' = Logged(CurrentLink, <<"download_failed">>)
                  /\ UNCHANGED scratch
    /\ UNCHANGED <<envVars, runState, stack, exc, remote, crawlHist, calls,
                   listedPptx, pptxDownloaded, scanned, handled>>
    /\ UNCHANGED pureVars

\* the guard, were no size too small
TooSmallNever(size) == FALSE

\* "if os.path.getsize(local_video_path) < 1024"
TooSmall(size) == size < MinVideoSize

\* the size guard, then upload_file_to_drive (files().create)
Pipeline_VideoUpload ==
    /\ InPipeline("video_upload")
    /\ IF TooSmall(proc.size)
       THEN /\ scratch' = [scratch EXCEPT ![proc.folder].files =
                              @ \ {sanitize_filename(proc.finalName)}]
            /\ linkLog' = Logged(CurrentLink, <<"removed">>)
            /\ UNCHANGED <<remote, faults>>
       ELSE \E o \in Outcomes({"failed"}) :
               /\ faults' = faults + Failed(o)
               /\ remote' = IF o = "ok"
                            THEN [remote EXCEPT ![proc.folder] =
                                     Append(@, proc.finalName)]
                            ELSE remote
               /\ linkLog' = Logged(CurrentLink,
                                    IF o = "ok" THEN <<"uploaded">>
                                    ELSE <<"upload_failed">>)
               /\ UNCHANGED scratch
    /\ proc' = Continue
    /\ UNCHANGED <<envVars, runState, stack, exc, crawlHist, calls,
                   listedPptx, pptxDownloaded, scanned, handled>>
    /\ UNCHANGED pureVars

\* the loop is over: control reaches the end of the try block
Pipeline_LinksDone ==
    /\ InPipeline("links")
    /\ proc.idx > Len(proc.links)
    /\ proc' = Leave(FALSE)
    /\ UNCHANGED <<envVars, runState, stack, exc, scratch, remote, faults,
                   crawlHist, calls, pipeHist>>
    /\ UNCHANGED pureVars

\* the finally clause: remove the scratch directory (an OSError of rmtree is
\* swallowed); then the exception goes on, or the function returns
Pipeline_Finally ==
    /\ InPipeline("finally")
    /\ \E o \in Outcomes(IF scratch[proc.folder].exists THEN {"oserror"} ELSE {}) :
          /\ faults' = faults + Failed(o)
          /\ scratch' = IF scratch[proc.folder].exists
                        THEN [scratch EXCEPT ![proc.folder] = AfterRmtree(@, o)]
                        ELSE scratch
    /\ IF proc.raising
       THEN proc' = Idle /\ exc' = TRUE /\ UNCHANGED stack
       ELSE ReturnToCrawl /\ UNCHANGED exc
    /\ ClearPipeHist
    /\ UNCHANGED <<envVars, runState, remote, crawlHist, calls>>
    /\ UNCHANGED pureVars

WalkNext ==
    \/ Run_Authenticate
    \/ crawl_ListPptx
    \/ crawl_ListSubfolders
    \/ crawl_Recurse
    \/ crawl_Return
    \/ crawl_Unwind
    \/ Run_Complete
    \/ Pipeline_Authenticate
    \/ Pipeline_Setup
    \/ Pipeline_FindPptx
    \/ Pipeline_DownloadPptx
    \/ Pipeline_Extract
    \/ Pipeline_LinkBegin
    \/ Pipeline_VideoDownload
    \/ Pipeline_VideoUpload
    \/ Pipeline_LinksDone
    \/ Pipeline_Finally

Spec == WalkInit /\ [][WalkNext]_vars

\* the worker stays up after a run and takes the next task: the same root is
\* walked again, with what the earlier run left in the folders
Run_Again ==
    /\ runState = "complete"
    /\ run.n < MaxRuns
    /\ run' = [n |-> run.n + 1, before |-> remote]
    /\ runState' = "start"
    /\ visits' = [f \in Folders |-> 0]
    /\ calls' = [f \in Folders |-> 0]
    /\ caught' = {}
    /\ enumerated' = <<>>
    /\ moreSubs' = {}
    /\ noPptxDeclared' = {}
    /\ UNCHANGED <<parent, pptx, doc, stack, exc, proc, scratch, remote,
                   faults, pipeHist>>
    /\ UNCHANGED pureVars

RerunNext ==
    \/ WalkNext
    \/ Run_Again

SpecRerun == WalkInit /\ [][RerunNext]_vars

\* a document whose last slide holds two different YouTube links, neither
\* with a name of its own, so that both compute the same destination name
TwinDocs ==
    { Document(TextNorthDelhi, <<Item(NoText, YoutubeLink),
                                 Item(NoText, YoutubeLink2)>>) }

TwinInit ==
    /\ BatchAtRest
    /\ ConvertAtRest
    /\ ShareAtRest
    /\ AuthAtRest
    /\ EmailAtRest
    /\ SanAtRest
    /\ parent \in Trees
    /\ pptx \in PptxLayouts
    /\ doc \in TwinDocs
    /\ runState = "start"
    /\ stack = <<>>
    /\ exc = FALSE
    /\ proc = Idle
    /\ scratch = [f \in Folders |-> NoScratch]
    /\ remote = [f \in Folders |-> <<>>]
    /\ faults = 0
    /\ visits = [f \in Folders |-> 0]
    /\ calls = [f \in Folders |-> 0]
    /\ caught = {}
    /\ enumerated = <<>>
    /\ moreSubs = {}
    /\ noPptxDeclared = {}
    /\ listedPptx = <<>>
    /\ pptxDownloaded = {}
    /\ scanned = {}
    /\ handled = <<>>
    /\ linkLog = <<>>
    /\ run = FirstRun
    /\ DocAllowed
    /\ DedupAtRest
    /\ ZoneAtRest
    /\ ExtractAtRest
    /\ LinksAtRest
    /\ ApiAtRest

\* the run on such a document
SpecTwins == TwinInit /\ [][WalkNext]_vars

\* the interpreter runs the single worker's next statement whenever there
\* is one, and every remote call returns or raises
FairSpec ==
    /\ Spec
    /\ WF_walkVars(Run_Authenticate)
    /\ WF_walkVars(crawl_ListPptx)
    /\ WF_walkVars(crawl_ListSubfolders)
    /\ WF_walkVars(crawl_Recurse)
    /\ WF_walkVars(crawl_Return)
    /\ WF_walkVars(crawl_Unwind)
    /\ WF_walkVars(Run_Complete)
    /\ WF_walkVars(Pipeline_Authenticate)
    /\ WF_walkVars(Pipeline_Setup)
    /\ WF_walkVars(Pipeline_FindPptx)
    /\ WF_walkVars(Pipeline_DownloadPptx)
    /\ WF_walkVars(Pipeline_Extract)
    /\ WF_walkVars(Pipeline_LinkBegin)
    /\ WF_walkVars(Pipeline_VideoDownload)
    /\ WF_walkVars(Pipeline_VideoUpload)
    /\ WF_walkVars(Pipeline_LinksDone)
    /\ WF_walkVars(Pipeline_Finally)

\* ------------------------------------- extract_all_potential_links, alone
\* the walk is not running
WalkAtRest ==
    /\ parent = [f \in Folders |-> IF f = Root THEN 0 ELSE Root]
    /\ pptx = [f \in Folders |-> 0]
    /\ doc = Document(<<>>, <<>>)
    /\ runState = "start"
    /\ stack = <<>>
    /\ exc = FALSE
    /\ proc = Idle
    /\ scratch = [f \in Folders |-> NoScratch]
    /\ remote = [f \in Folders |-> <<>>]
    /\ faults = 0
    /\ visits = [f \in Folders |-> 0]
    /\ calls = [f \in Folders |-> 0]
    /\ caught = {}
    /\ enumerated = <<>>
    /\ moreSubs = {}
    /\ noPptxDeclared = {}
    /\ listedPptx = <<>>
    /\ pptxDownloaded = {}
    /\ scanned = {}
    /\ handled = <<>>
    /\ linkLog = <<>>
    /\ run = FirstRun

\* the names an item carries: None (an action hyperlink, a text frame, a
\* table without a name column), the empty string (get_text_from_cell of an
\* empty name cell), or the text of the name cell
FoundNames == {NoText, SomeText(<<>>), SomeText(NameAcme), SomeText(NameStoreA)}

FoundLinks == {DriveLink, YoutubeLink}

FoundItems == {Item(n, l) : n \in FoundNames, l \in FoundLinks}

FoundLists == UNION {[1..n -> FoundItems] : n \in 0..MaxFound}

DedupInit ==
    /\ BatchAtRest
    /\ ConvertAtRest
    /\ ShareAtRest
    /\ AuthAtRest
    /\ EmailAtRest
    /\ SanAtRest
    /\ WalkAtRest
    /\ ZoneAtRest
    /\ ExtractAtRest
    /\ LinksAtRest
    /\ ApiAtRest
    /\ found_links_with_names \in FoundLists
    /\ unique_links_with_names = <<>>
    /\ dedupNext = 1
    /\ dedupResult = NotReturned

\* one iteration of "for item in found_links_with_names"
Dedup_Iterate ==
    /\ ~dedupResult.some
    /\ dedupNext <= Len(found_links_with_names)
    /\ unique_links_with_names' =
           DedupStep(unique_links_with_names, found_links_with_names[dedupNext])
    /\ dedupNext' = dedupNext + 1
    /\ UNCHANGED <<found_links_with_names, dedupResult, notDedup>>

\* return list(unique_links_with_names.values())
Dedup_Return ==
    /\ ~dedupResult.some
    /\ dedupNext > Len(found_links_with_names)
    /\ dedupResult' = Returns(unique_links_with_names)
    /\ UNCHANGED <<found_links_with_names, unique_links_with_names, dedupNext,
                   notDedup>>

DedupNext ==
    \/ Dedup_Iterate
    \/ Dedup_Return

SpecDedup == DedupInit /\ [][DedupNext]_vars

\* ------------------------------------- extract_data_from_ppt, alone
ExtractInit ==
    /\ BatchAtRest
    /\ ConvertAtRest
    /\ ShareAtRest
    /\ AuthAtRest
    /\ EmailAtRest
    /\ SanAtRest
    /\ WalkAtRest
    /\ DedupAtRest
    /\ ZoneAtRest
    /\ ExtractAtRest
    /\ LinksAtRest
    /\ ApiAtRest

\* Presentation(file_path) raises
Extract_CannotOpen ==
    /\ extractPc = "start"
    /\ results' = WithError(results, CannotOpen)
    /\ extractPc' = "returned"
    /\ UNCHANGED <<slidesLeft, target_slide, shapeNext, notExtract>>

\* Presentation(file_path) returns a presentation of n slides
Extract_Open ==
    /\ extractPc = "start"
    /\ \E n \in 0..MaxSlides : slidesLeft' = n
    /\ extractPc' = "slides"
    /\ UNCHANGED <<target_slide, shapeNext, results, notExtract>>

\* one iteration of "for i, slide in enumerate(prs.slides)" on a slide whose
\* title does not match
Extract_SkipSlide ==
    /\ extractPc = "slides"
    /\ slidesLeft > 0
    /\ \E slide \in Slides : ~TitleMatches(slide)
    /\ slidesLeft' = slidesLeft - 1
    /\ UNCHANGED <<extractPc, target_slide, shapeNext, results, notExtract>>

\* the iteration on a slide whose title matches: target_slide = slide; break
Extract_TargetSlide ==
    /\ extractPc = "slides"
    /\ slidesLeft > 0
    /\ \E slide \in Slides :
           /\ TitleMatches(slide)
           /\ target_slide' = [some |-> TRUE, val |-> slide]
    /\ slidesLeft' = slidesLeft - 1
    /\ extractPc' = "shapes"
    /\ UNCHANGED <<shapeNext, results, notExtract>>

\* "if not target_slide": the error is recorded and results returned
Extract_SlideNotFound ==
    /\ extractPc = "slides"
    /\ slidesLeft = 0
    /\ results' = WithError(results, SlideNotFound)
    /\ extractPc' = "returned"
    /\ UNCHANGED <<slidesLeft, target_slide, shapeNext, notExtract>>

\* one iteration of "for shape in slide.shapes"
Extract_Shape ==
    /\ extractPc = "shapes"
    /\ shapeNext <= Len(target_slide.val.shapes)
    /\ results' = ScanShape(results, target_slide.val.shapes[shapeNext])
    /\ shapeNext' = shapeNext + 1
    /\ UNCHANGED <<extractPc, slidesLeft, target_slide, notExtract>>

\* the final loop over KEYS_TO_FIND, and "return results"
Extract_Return ==
    /\ extractPc = "shapes"
    /\ shapeNext > Len(target_slide.val.shapes)
    /\ results' = FillNotFound(results)
    /\ extractPc' = "returned"
    /\ UNCHANGED <<slidesLeft, target_slide, shapeNext, notExtract>>

ExtractNext ==
    \/ Extract_CannotOpen
    \/ Extract_Open
    \/ Extract_SkipSlide
    \/ Extract_TargetSlide
    \/ Extract_SlideNotFound
    \/ Extract_Shape
    \/ Extract_Return

SpecExtract == ExtractInit /\ [][ExtractNext]_vars

\* ------------------------------------ the zone and the market, alone
\* the paragraphs a first slide is made of
ParaZoneNorth == <<"Z","O","N","E"," ",":"," ","N","o","r","t","h">>

ParaMarketNorth == <<"N","o","r","t","h"," ","1","_","D","e","l","h","i","_","M","a","r","k","e","t">>

ParaZoneEmptyState == <<"Z","O","N","E"," ",":"," ","S","T","A","T","E">>

ParaZoneImage == <<"Z","O","N","E"," ",":"," ","[","I","m","a","g","e"," ","1","]">>

ParaZoneLowerPin == <<"z","o","n","e",":","n","o","r","t","h"," ","p","i","n"," ","c","o","d","e">>

ParaMarketNoZone == <<"1","_","a","_","b">>

ParaBd == <<"B","D","-","S">>

ParaAdd == <<"A","d","d","_","S">>

ParaEmpty == <<>>

Paragraphs ==
    {ParaZoneNorth, ParaMarketNorth, ParaZoneEmptyState,
     ParaZoneImage, ParaZoneLowerPin, ParaMarketNoZone,
     ParaBd, ParaAdd, ParaEmpty}

RECURSIVE SlideText(_)
\* slide_text += paragraph.text + "\n", over the paragraphs of the first slide
SlideText(paragraphs) ==
    IF paragraphs = <<>> THEN <<>>
    ELSE Head(paragraphs) \o <<"\n">> \o SlideText(Tail(paragraphs))

\* prs.slides is empty
NoSlides == [some |-> FALSE, val |-> <<>>]

FirstSlides ==
    {NoSlides} \cup
    {[some |-> TRUE, val |-> ps] :
        ps \in UNION {[1..n -> Paragraphs] : n \in 0..MaxParagraphs}}

\* what a call returned: the market and the zone (None, None of a call that
\* returns a prefix), the prefix (empty of a call that returns the pair), and
\* whether the market search ran
ZoneReturn(market, zone, prefix, searched) ==
    [market |-> market, zone |-> zone, prefix |-> prefix, searched |-> searched]

NothingReturned == ZoneReturn(NoText, NoText, <<>>, FALSE)

ZoneInit ==
    /\ BatchAtRest
    /\ ConvertAtRest
    /\ ShareAtRest
    /\ AuthAtRest
    /\ EmailAtRest
    /\ SanAtRest
    /\ WalkAtRest
    /\ DedupAtRest
    /\ ExtractAtRest
    /\ LinksAtRest
    /\ ApiAtRest
    /\ first_slide \in FirstSlides
    /\ zoneCall = "none"
    /\ zoneResult = NothingReturned

\* get_market_and_zone_name_from_ppt of uploader/utils.py (fixed = FALSE) and
\* of drive_uploader/views.py (fixed = TRUE)
MarketAndZoneFromPpt(fixed) ==
    IF ~first_slide.some THEN NothingReturned
    ELSE LET r == GetMarketAndZone(SlideText(first_slide.val), fixed)
         IN  ZoneReturn(r.market, r.zone, <<>>, r.searched)

Call_utils_get_market_and_zone_name_from_ppt ==
    /\ zoneCall = "none"
    /\ zoneCall' = "utils"
    /\ zoneResult' = MarketAndZoneFromPpt(FALSE)
    /\ UNCHANGED <<first_slide, notZone>>

Call_views_get_market_and_zone_name_from_ppt ==
    /\ zoneCall = "none"
    /\ zoneCall' = "views"
    /\ zoneResult' = MarketAndZoneFromPpt(TRUE)
    /\ UNCHANGED <<first_slide, notZone>>

\* DriveHelper.get_market_name_prefix
Call_get_market_name_prefix ==
    /\ zoneCall = "none"
    /\ zoneCall' = "prefix"
    /\ zoneResult' =
           IF ~first_slide.some THEN NothingReturned
           ELSE LET r == GetMarketNamePrefix(SlideText(first_slide.val))
                IN  ZoneReturn(NoText, NoText, r.prefix, r.searched)
    /\ UNCHANGED <<first_slide, notZone>>

ZoneNext ==
    \/ Call_utils_get_market_and_zone_name_from_ppt
    \/ Call_views_get_market_and_zone_name_from_ppt
    \/ Call_get_market_name_prefix

SpecZone == ZoneInit /\ [][ZoneNext]_vars

\* ------------------------------------------ the link extraction, alone
HeaderName == <<"N","a","m","e">>

HeaderLink == <<"L","i","n","k">>

UrlText == <<"h","t","t","p","s",":","/","/","y","o","u","t","u",".","b","e","/","a","b","c","1","2","3">>

\* the cells of the tables: two header cells without a link, a header cell
\* that is itself a hyperlink, a name and a cell that holds a URL
Cells ==
    {Cell(HeaderName, <<>>), Cell(HeaderLink, <<>>),
     Cell(HeaderName, <<DriveLink>>), Cell(NameStoreA, <<>>),
     Cell(UrlText, <<YoutubeLink>>)}

\* a table has the same number of cells in every row
Rows == [1..2 -> Cells]

Tables == {LinkTableShape(rows) :
              rows \in UNION {[1..n -> Rows] : n \in 0..MaxRows}}

\* the shapes of a call: a table, alone or after a shape without a table
LinkShapeLists ==
    {<<t>> : t \in Tables} \cup
    {<<o, t>> : o \in {ActionShape(DriveLink), LinkTextShape(<<YoutubeLink>>)},
                t \in Tables}

\* the statements of the extractor that its "try ... except Exception"
\* encloses, were the try to end after the presentation is opened
LinksTryCoversOpenOnly(step) == step = "open"

LinksTryCovers(step) == step \in {"open", "shapes", "dedup"}

\* an exception met at a step: the except clause logs it and returns [], or
\* it leaves the function
LinksException(step) ==
    IF LinksTryCovers(step)
    THEN /\ link_exc' = "caught"
         /\ link_result' = Returns(<<>>)
    ELSE /\ link_exc' = "raised"
         /\ UNCHANGED link_result

LinksInit ==
    /\ BatchAtRest
    /\ ConvertAtRest
    /\ ShareAtRest
    /\ AuthAtRest
    /\ EmailAtRest
    /\ SanAtRest
    /\ WalkAtRest
    /\ DedupAtRest
    /\ ZoneAtRest
    /\ ExtractAtRest
    /\ ApiAtRest
    /\ link_variant \in {"services", "utils"}
    /\ \/ link_file = "ok" /\ link_shapes \in LinkShapeLists
       \/ link_file \in {"missing", "notpptx", "unreadable", "noslides"}
             /\ link_shapes = <<>>
    /\ link_next = 0
    /\ link_found = <<>>
    /\ link_result = NotReturned
    /\ link_exc = "none"

LinksRunning == ~link_result.some /\ link_exc = "none"

\* the test of the path, Presentation(pptx_file_path) and "if not prs.slides"
Links_Open ==
    /\ LinksRunning
    /\ link_next = 0
    /\ IF link_file \in {"missing", "notpptx", "noslides"}
       THEN /\ link_result' = Returns(<<>>)
            /\ UNCHANGED <<link_next, link_exc>>
       ELSE IF link_file = "unreadable"
       THEN LinksException("open") /\ UNCHANGED link_next
       ELSE /\ link_next' = 1
            /\ UNCHANGED <<link_result, link_exc>>
    /\ UNCHANGED <<link_variant, link_shapes, link_found, link_file, notLinks>>

\* one iteration of "for shape in slide.shapes"
Links_Shape ==
    /\ LinksRunning
    /\ link_next \in 1..Len(link_shapes)
    /\ link_found' = link_found \o ShapeItems(link_shapes[link_next], link_variant)
    /\ link_next' = link_next + 1
    /\ UNCHANGED <<link_variant, link_shapes, link_result, link_file,
                   link_exc, notLinks>>

\* a shape of the slide makes python-pptx raise
Links_ShapeRaises ==
    /\ LinksRunning
    /\ link_next \in 1..Len(link_shapes)
    /\ LinksException("shapes")
    /\ UNCHANGED <<link_variant, link_shapes, link_next, link_found,
                   link_file, notLinks>>

\* the de-duplication, and "return list(unique_links_with_names.values())"
Links_Return ==
    /\ LinksRunning
    /\ link_next > Len(link_shapes)
    /\ link_result' = Returns(DeduplicateLinks(link_found))
    /\ UNCHANGED <<link_variant, link_shapes, link_next, link_found,
                   link_file, link_exc, notLinks>>

LinksNext ==
    \/ Links_Open
    \/ Links_Shape
    \/ Links_ShapeRaises
    \/ Links_Return

SpecLinks == LinksInit /\ [][LinksNext]_vars

\* --------------------------------------------------- upload_file_to_drive
\* the name of the local file, and of the folder looked for
TargetName == NameAcme

Entries ==
    {Entry(name, folder, trashed) :
        name \in {TargetName, NameStoreA}, folder \in BOOLEAN,
        trashed \in BOOLEAN}

Drives == UNION {[1..n -> Entries] : n \in 0..MaxEntries}

\* the ids files().list gives for "name = '...' and mimeType (!)= folder and
\* '<parent>' in parents and trashed = false"
Matching(d, name, folder) ==
    {id \in 1..Len(d) :
        d[id].name = name /\ d[id].folder = folder /\ ~d[id].trashed}

\* the outcomes of a request, while requests may still fail
ApiOutcomes(bad) == {"ok"} \cup (IF api_faults < MaxFaults THEN bad ELSE {})

\* where a call of the uploader starts: the search of views.py, or the
\* files().create of services.py and uploader/utils.py
UploadStart(variant) == IF variant = "views" THEN "search" ELSE "store"

\* the call returned id (0 for None): the next call, if there is one
UploadReturns(id) ==
    /\ up_ids' = Append(up_ids, id)
    /\ up_existing' = 0
    /\ up_pc' = IF Len(up_ids) + 1 < MaxUploads
                THEN UploadStart(up_variant) ELSE "done"

UploadInit ==
    /\ BatchAtRest
    /\ ConvertAtRest
    /\ ShareAtRest
    /\ AuthAtRest
    /\ EmailAtRest
    /\ SanAtRest
    /\ WalkAtRest
    /\ DedupAtRest
    /\ ZoneAtRest
    /\ ExtractAtRest
    /\ LinksAtRest
    /\ drive \in Drives
    /\ drive_before = drive
    /\ api_faults = 0
    /\ up_variant \in {"views", "services", "utils"}
    /\ up_pc = UploadStart(up_variant)
    /\ up_existing = 0
    /\ up_ids = <<>>
    /\ fo_pc = <<>>
    /\ fo_result = <<>>

\* views.py: the search for a file of the same name; existing_file_id is
\* items[0]['id'], None when nothing matched or the request gave an HttpError
Upload_Search ==
    /\ up_pc = "search"
    /\ \E o \in ApiOutcomes({"httperror"}) :
          /\ api_faults' = api_faults + Failed(o)
          /\ LET items == Matching(drive, TargetName, FALSE) IN
             IF o = "ok" /\ items # {}
             THEN \E id \in items : up_existing' = id
             ELSE up_existing' = 0
    /\ up_pc' = "store"
    /\ UNCHANGED <<drive, drive_before, up_variant, up_ids, fo_pc, fo_result,
                   notApi>>

\* files().update on the existing file, or files().create; a failed request
\* gives None
Upload_Store ==
    /\ up_pc = "store"
    /\ \E o \in ApiOutcomes({"failed"}) :
          /\ api_faults' = api_faults + Failed(o)
          /\ IF o # "ok"
             THEN UploadReturns(0) /\ UNCHANGED drive
             ELSE IF up_existing # 0
             THEN /\ drive' = [drive EXCEPT ![up_existing].version = @ + 1]
                  /\ UploadReturns(up_existing)
             ELSE /\ drive' = Append(drive, Entry(TargetName, FALSE, FALSE))
                  /\ UploadReturns(Len(drive) + 1)
    /\ UNCHANGED <<drive_before, up_variant, fo_pc, fo_result, notApi>>

UploadNext ==
    \/ Upload_Search
    \/ Upload_Store

SpecUpload == UploadInit /\ [][UploadNext]_vars

\* -------------------------------------------------- find_or_create_folder
Callers == 1..MaxCallers

FolderInit ==
    /\ BatchAtRest
    /\ ConvertAtRest
    /\ ShareAtRest
    /\ AuthAtRest
    /\ EmailAtRest
    /\ SanAtRest
    /\ WalkAtRest
    /\ DedupAtRest
    /\ ZoneAtRest
    /\ ExtractAtRest
    /\ LinksAtRest
    /\ drive \in Drives
    /\ drive_before = drive
    /\ api_faults = 0
    /\ up_variant = "views"
    /\ up_pc = "done"
    /\ up_existing = 0
    /\ up_ids = <<>>
    /\ fo_pc = [c \in Callers |-> "list"]
    /\ fo_result = [c \in Callers |-> 0]

\* the files().list of caller c: the id of items[0] is returned, or the
\* caller goes on to create the folder; an exception gives None
Folder_List(c) ==
    /\ fo_pc[c] = "list"
    /\ \E o \in ApiOutcomes({"httperror"}) :
          /\ api_faults' = api_faults + Failed(o)
          /\ LET items == Matching(drive, TargetName, TRUE) IN
             IF o # "ok"
             THEN /\ fo_pc' = [fo_pc EXCEPT ![c] = "done"]
                  /\ UNCHANGED fo_result
             ELSE IF items # {}
             THEN /\ fo_pc' = [fo_pc EXCEPT ![c] = "done"]
                  /\ \E id \in items :
                        fo_result' = [fo_result EXCEPT ![c] = id]
             ELSE /\ fo_pc' = [fo_pc EXCEPT ![c] = "create"]
                  /\ UNCHANGED fo_result
    /\ UNCHANGED <<drive, drive_before, up_variant, up_pc, up_existing,
                   up_ids, notApi>>

\* create_drive_folder of caller c: the id of the new folder, or None
Folder_Create(c) ==
    /\ fo_pc[c] = "create"
    /\ \E o \in ApiOutcomes({"failed"}) :
          /\ api_faults' = api_faults + Failed(o)
          /\ IF o = "ok"
             THEN /\ drive' = Append(drive, Entry(TargetName, TRUE, FALSE))
                  /\ fo_result' = [fo_result EXCEPT ![c] = Len(drive) + 1]
             ELSE UNCHANGED <<drive, fo_result>>
    /\ fo_pc' = [fo_pc EXCEPT ![c] = "done"]
    /\ UNCHANGED <<drive_before, up_variant, up_pc, up_existing, up_ids,
                   notApi>>

FolderNext ==
    \/ \E c \in Callers : Folder_List(c)
    \/ \E c \in Callers : Folder_Create(c)

SpecFolder == FolderInit /\ [][FolderNext]_vars

\* ------------------------------------------------------ sanitize_filename
\* the characters of the file names: a letter, a space, characters of the
\* pattern, and the control characters tab, newline and form feed
NameChars == {"a", " ", "/", "|", "\t", "\n", "\f"}

FileNames == UNION {[1..n -> NameChars] : n \in 0..MaxNameLen}

\* a character with a code below 32
IsControl(c) == c \in {"\t", "\n", "\r", "\f"}

SanitizeInit ==
    /\ BatchAtRest
    /\ ConvertAtRest
    /\ ShareAtRest
    /\ AuthAtRest
    /\ EmailAtRest
    /\ WalkAtRest
    /\ DedupAtRest
    /\ ZoneAtRest
    /\ ExtractAtRest
    /\ LinksAtRest
    /\ ApiAtRest
    /\ san_filename \in FileNames
    /\ san_result = NotReturned

Sanitize_Call ==
    /\ ~san_result.some
    /\ san_result' = Returns(sanitize_filename(san_filename))
    /\ UNCHANGED <<san_filename, notSan>>

SanitizeNext ==
    \/ Sanitize_Call

SpecSanitize == SanitizeInit /\ [][SanitizeNext]_vars

\* -------------------------------------------------- check_email_and_upload
\* what download_attachment meets in one message: the temporary directory
\* cannot be made, the message cannot be fetched, it has no payload, it
\* holds a Drive link (parts = 1 when the linked file was downloaded), or
\* it is searched for attachments: parts of them, and fail = k > 0 when
\* the k-th one raises while it is fetched, decoded or written
MessageShapes ==
    {m \in [kind : {"mkdtemp_raises", "get_raises", "no_payload", "link",
                    "parts"},
            parts : 0..MaxParts, fail : 0..MaxParts] :
        \/ m.kind \in {"mkdtemp_raises", "get_raises", "no_payload"}
           /\ m.parts = 0 /\ m.fail = 0
        \/ m.kind = "link" /\ m.parts \in {0, 1} /\ m.fail = 0
        \/ m.kind = "parts" /\ m.fail <= m.parts}

Inboxes == UNION {[1..n -> MessageShapes] : n \in 0..MaxMessages}

\* the length of the local list downloaded_files when download_attachment
\* leaves its try block
Saved(m) ==
    CASE m.kind = "link" -> m.parts
      [] m.kind = "parts" -> IF m.fail = 0 THEN m.parts ELSE m.fail - 1
      [] OTHER -> 0

\* download_attachment leaves through one of its except clauses
DownloadRaised(m) ==
    \/ m.kind \in {"mkdtemp_raises", "get_raises"}
    \/ m.kind = "parts" /\ m.fail > 0

\* the list download_attachment returns for message msg_id
DownloadedFiles(m, msg_id) ==
    IF DownloadRaised(m) THEN <<>>
    ELSE [k \in 1..Saved(m) |->
             [path |-> k, filename |-> k, temp_dir |-> msg_id]]

\* the finally clause of download_attachment removes the directory
FinallyRemoves(m) == Saved(m) = 0 /\ m.kind # "mkdtemp_raises"

\* what main_processor returns
MainOutcomes == {"message", "error", "raises"}

main_processor(outcome) ==
    IF outcome = "message"
    THEN [message |-> "uploaded", file_id |-> 1]
    ELSE [error |-> "failed"]

FileEntry(result, msg_id, filename) ==
    [source_email_id |-> msg_id, source_filename |-> filename] @@ result

SkippedEntry(msg_id, filename) ==
    [error |-> "skipped", source_email_id |-> msg_id,
     source_filename |-> filename]

NoFilesEntryNoId(msg_id) == [error |-> "nofile"]

NoFilesEntry(msg_id) == [error |-> "nofile", source_email_id |-> msg_id]

\* the loop moves to the next message, or to the cleanup after the last
EmailAdvance ==
    /\ em_i' = em_i + 1
    /\ em_files' = <<>>
    /\ em_j' = 1
    /\ em_pc' = IF em_i < Len(em_messages) THEN "download" ELSE "cleanup"

EmailInit ==
    /\ BatchAtRest
    /\ ConvertAtRest
    /\ ShareAtRest
    /\ AuthAtRest
    /\ WalkAtRest
    /\ DedupAtRest
    /\ ZoneAtRest
    /\ ExtractAtRest
    /\ LinksAtRest
    /\ ApiAtRest
    /\ SanAtRest
    /\ em_request \in [parent : BOOLEAN, auth : BOOLEAN]
    /\ em_messages \in Inboxes
    /\ em_pc = "start"
    /\ em_i = 1
    /\ em_files = <<>>
    /\ em_j = 1
    /\ em_results = <<>>
    /\ em_cleanup = {}
    /\ em_dirs = [i \in 1..Len(em_messages) |-> "none"]
    /\ em_response = "none"

Email_Start ==
    /\ em_pc = "start"
    /\ IF ~em_request.parent
       THEN em_pc' = "returned" /\ em_response' = "400"
       ELSE IF ~em_request.auth
       THEN em_pc' = "returned" /\ em_response' = "500"
       ELSE IF em_messages = <<>>
       THEN em_pc' = "returned" /\ em_response' = "empty"
       ELSE em_pc' = "download" /\ em_response' = "none"
    /\ UNCHANGED <<em_request, em_messages, em_i, em_files, em_j,
                   em_results, em_cleanup, em_dirs, notEmail>>

\* download_attachment for the message at hand, and the branch on its list
Email_Download ==
    /\ em_pc = "download"
    /\ LET m == em_messages[em_i]
           files == DownloadedFiles(m, em_i)
       IN  /\ \E rmtree \in {"removed", "rmtree_failed"} :
                 em_dirs' = [em_dirs EXCEPT ![em_i] =
                     IF m.kind = "mkdtemp_raises" THEN "none"
                     ELSE IF FinallyRemoves(m) THEN rmtree
                     ELSE "exists"]
           /\ IF files # <<>>
              THEN /\ em_cleanup' = em_cleanup \cup {files[1].temp_dir}
                   /\ em_files' = files
                   /\ em_j' = 1
                   /\ em_pc' = "process"
                   /\ UNCHANGED <<em_i, em_results>>
              ELSE /\ em_results' = Append(em_results, NoFilesEntry(em_i))
                   /\ EmailAdvance
                   /\ UNCHANGED em_cleanup
    /\ UNCHANGED <<em_request, em_messages, em_response, notEmail>>

\* one downloaded file goes through main_processor
Email_Process ==
    /\ em_pc = "process"
    /\ \E outcome \in MainOutcomes :
          em_results' = Append(em_results,
              IF outcome = "raises"
              THEN SkippedEntry(em_i, em_files[em_j].filename)
              ELSE FileEntry(main_processor(outcome), em_i,
                             em_files[em_j].filename))
    /\ IF em_j < Len(em_files)
       THEN em_j' = em_j + 1 /\ UNCHANGED <<em_i, em_files, em_pc>>
       ELSE EmailAdvance
    /\ UNCHANGED <<em_request, em_messages, em_cleanup, em_dirs,
                   em_response, notEmail>>

\* one directory of dirs_to_cleanup
Email_Cleanup ==
    /\ em_pc = "cleanup"
    /\ \E d \in em_cleanup :
          /\ em_cleanup' = em_cleanup \ {d}
          /\ IF em_dirs[d] \in {"exists", "rmtree_failed"}
             THEN \E rmtree \in {"removed", "rmtree_failed"} :
                     em_dirs' = [em_dirs EXCEPT ![d] = rmtree]
             ELSE UNCHANGED em_dirs
    /\ UNCHANGED <<em_request, em_messages, em_pc, em_i, em_files, em_j,
                   em_results, em_response, notEmail>>

Email_Return ==
    /\ em_pc = "cleanup"
    /\ em_cleanup = {}
    /\ em_pc' = "returned"
    /\ em_response' = "results"
    /\ UNCHANGED <<em_request, em_messages, em_i, em_files, em_j,
                   em_results, em_cleanup, em_dirs, notEmail>>

EmailNext ==
    \/ Email_Start
    \/ Email_Download
    \/ Email_Process
    \/ Email_Cleanup
    \/ Email_Return

SpecEmail == EmailInit /\ [][EmailNext]_vars

\* ---------------------------------------------------- credential providers
\* the token file is absent, cannot be unpickled, or holds credentials that
\* are valid, expired with a refresh token, or invalid and not refreshable;
\* the other fields say whether the client secrets file exists and whether
\* the refresh, the consent flow, the write of the token file and build
\* end without an exception
AuthEnvs ==
    [token : {"absent", "unreadable", "valid", "refreshable",
              "unrefreshable"},
     credentials_file : BOOLEAN, refresh_ok : BOOLEAN, flow_ok : BOOLEAN,
     save_ok : BOOLEAN, build_ok : BOOLEAN]

\* creds after the token file was read
LoadedCreds(token) ==
    IF token \in {"absent", "unreadable"} THEN "none" ELSE token

\* where an invalid, not refreshable creds goes: services.py asks again
\* whether creds is None, utils.py takes the else branch
AfterUnrefreshable(variant, creds) ==
    IF variant = "services" /\ creds # "none" THEN "save" ELSE "flow"

AuthInit ==
    /\ BatchAtRest
    /\ ConvertAtRest
    /\ ShareAtRest
    /\ WalkAtRest
    /\ DedupAtRest
    /\ ZoneAtRest
    /\ ExtractAtRest
    /\ LinksAtRest
    /\ ApiAtRest
    /\ SanAtRest
    /\ EmailAtRest
    /\ au_variant \in {"services", "utils"}
    /\ au_env \in AuthEnvs
    /\ au_pc = "load"
    /\ au_creds = "none"
    /\ au_flowed = FALSE
    /\ au_saved = "nothing"
    /\ au_result = "pending"

Auth_Load ==
    /\ au_pc = "load"
    /\ au_creds' = LoadedCreds(au_env.token)
    /\ au_pc' = CASE au_creds' = "valid" -> "build"
                  [] au_creds' = "refreshable" -> "refresh"
                  [] OTHER -> AfterUnrefreshable(au_variant, au_creds')
    /\ UNCHANGED <<au_variant, au_env, au_flowed, au_saved, au_result,
                   notAuth>>

Auth_Refresh ==
    /\ au_pc = "refresh"
    /\ IF au_env.refresh_ok
       THEN /\ au_creds' = "valid"
            /\ au_pc' = "save"
            /\ UNCHANGED au_result
       ELSE IF au_variant = "services"
       THEN /\ au_creds' = "none"
            /\ au_pc' = "flow"
            /\ UNCHANGED au_result
       ELSE /\ au_pc' = "done"
            /\ au_result' = "raised"
            /\ UNCHANGED au_creds
    /\ UNCHANGED <<au_variant, au_env, au_flowed, au_saved, notAuth>>

Auth_Flow ==
    /\ au_pc = "flow"
    /\ IF ~au_env.credentials_file
       THEN /\ au_pc' = "done"
            /\ au_result' = IF au_variant = "services" THEN "none"
                            ELSE "raised"
            /\ UNCHANGED <<au_creds, au_flowed>>
       ELSE /\ au_flowed' = TRUE
            /\ IF au_env.flow_ok
               THEN /\ au_creds' = "valid"
                    /\ au_pc' = "save"
                    /\ UNCHANGED au_result
               ELSE /\ au_pc' = "done"
                    /\ au_result' = IF au_variant = "services" THEN "raised"
                                    ELSE "none"
                    /\ UNCHANGED au_creds
    /\ UNCHANGED <<au_variant, au_env, au_saved, notAuth>>

Auth_Save ==
    /\ au_pc = "save"
    /\ IF au_env.save_ok
       THEN /\ au_saved' = au_creds
            /\ au_pc' = "build"
            /\ UNCHANGED au_result
       ELSE IF au_variant = "services"
       THEN /\ au_pc' = "done"
            /\ au_result' = "raised"
            /\ UNCHANGED au_saved
       ELSE /\ au_pc' = "build"
            /\ UNCHANGED <<au_saved, au_result>>
    /\ UNCHANGED <<au_variant, au_env, au_creds, au_flowed, notAuth>>

Auth_Build ==
    /\ au_pc = "build"
    /\ au_pc' = "done"
    /\ au_result' = IF au_env.build_ok THEN au_creds
                    ELSE IF au_variant = "services" THEN "raised"
                    ELSE "none"
    /\ UNCHANGED <<au_variant, au_env, au_creds, au_flowed, au_saved,
                   notAuth>>

AuthNext ==
    \/ Auth_Load
    \/ Auth_Refresh
    \/ Auth_Flow
    \/ Auth_Save
    \/ Auth_Build

SpecAuth == AuthInit /\ [][AuthNext]_vars

\* ------------------------------------- executions sharing a scratch path
\* the executions, the base directories they are given and the names of
\* their videos; all of them work on the same Drive folder
Execs == 1..MaxCallers

BaseDirs == {1, 2}

VideoNames == {1, 2}

\* "os.path.join(base_temp_dir, current_folder_id)"
folder_temp_path(base_temp_dir, current_folder_id) ==
    <<base_temp_dir, current_folder_id>>

ScratchPaths == {folder_temp_path(b, Root) : b \in BaseDirs}

\* shutil.rmtree, were it to leave the directory as it is
RmtreeSpares(dir) == dir

\* shutil.rmtree on a directory
Rmtree(dir) == [exists |-> FALSE, files |-> {}]

\* p has downloaded its video and has not yet reached the upload
Pending(p) == sh_pc[p] = "upload"

\* the executions whose pending file is in the directory p removes
Victims(p, kind) ==
    [q \in Execs |->
        IF /\ q # p
           /\ Pending(q)
           /\ sh_path[q] = sh_path[p]
           /\ sh_name[q] \in sh_disk[sh_path[q]].files
        THEN kind ELSE sh_lost[q]]

ShareInit ==
    /\ BatchAtRest
    /\ ConvertAtRest
    /\ WalkAtRest
    /\ DedupAtRest
    /\ ZoneAtRest
    /\ ExtractAtRest
    /\ LinksAtRest
    /\ ApiAtRest
    /\ SanAtRest
    /\ EmailAtRest
    /\ AuthAtRest
    /\ sh_path \in [Execs -> ScratchPaths]
    /\ sh_name \in [Execs -> VideoNames]
    /\ sh_pc = [p \in Execs |-> "setup"]
    /\ sh_disk = [d \in ScratchPaths |-> [exists |-> FALSE, files |-> {}]]
    /\ sh_lost = [p \in Execs |-> "no"]
    /\ sh_uploaded = [p \in Execs |-> FALSE]

\* "if os.path.exists(temp_download_dir): shutil.rmtree(temp_download_dir)"
Share_Setup(p) ==
    /\ sh_pc[p] = "setup"
    /\ sh_pc' = [sh_pc EXCEPT ![p] = "makedirs"]
    /\ IF sh_disk[sh_path[p]].exists
       THEN /\ sh_disk' = [sh_disk EXCEPT ![sh_path[p]] = Rmtree(@)]
            /\ sh_lost' = Victims(p, "startup")
       ELSE UNCHANGED <<sh_disk, sh_lost>>
    /\ UNCHANGED <<sh_path, sh_name, sh_uploaded, notShare>>

\* os.makedirs raises when the directory is there again
Share_Makedirs(p) ==
    /\ sh_pc[p] = "makedirs"
    /\ IF sh_disk[sh_path[p]].exists
       THEN /\ sh_pc' = [sh_pc EXCEPT ![p] = "finally"]
            /\ UNCHANGED sh_disk
       ELSE /\ sh_pc' = [sh_pc EXCEPT ![p] = "download"]
            /\ sh_disk' = [sh_disk EXCEPT ![sh_path[p]].exists = TRUE]
    /\ UNCHANGED <<sh_path, sh_name, sh_lost, sh_uploaded, notShare>>

\* the download writes the video into the directory; without the
\* directory the helper catches the error and reports a failed download
Share_Download(p) ==
    /\ sh_pc[p] = "download"
    /\ IF sh_disk[sh_path[p]].exists
       THEN /\ sh_pc' = [sh_pc EXCEPT ![p] = "upload"]
            /\ sh_disk' = [sh_disk EXCEPT ![sh_path[p]].files =
                              @ \cup {sh_name[p]}]
       ELSE /\ sh_pc' = [sh_pc EXCEPT ![p] = "finally"]
            /\ UNCHANGED sh_disk
    /\ UNCHANGED <<sh_path, sh_name, sh_lost, sh_uploaded, notShare>>

\* "if video_downloaded and local_video_path and os.path.exists(...)":
\* the upload happens only when the file is still there
Share_Upload(p) ==
    /\ sh_pc[p] = "upload"
    /\ sh_pc' = [sh_pc EXCEPT ![p] = "finally"]
    /\ sh_uploaded' = [sh_uploaded EXCEPT ![p] =
                          sh_name[p] \in sh_disk[sh_path[p]].files]
    /\ UNCHANGED <<sh_path, sh_name, sh_disk, sh_lost, notShare>>

\* the finally clause
Share_Finally(p) ==
    /\ sh_pc[p] = "finally"
    /\ sh_pc' = [sh_pc EXCEPT ![p] = "done"]
    /\ IF sh_disk[sh_path[p]].exists
       THEN /\ sh_disk' = [sh_disk EXCEPT ![sh_path[p]] = Rmtree(@)]
            /\ sh_lost' = Victims(p, "cleanup")
       ELSE UNCHANGED <<sh_disk, sh_lost>>
    /\ UNCHANGED <<sh_path, sh_name, sh_uploaded, notShare>>

ShareNext ==
    \/ \E p \in Execs : Share_Setup(p)
    \/ \E p \in Execs : Share_Makedirs(p)
    \/ \E p \in Execs : Share_Download(p)
    \/ \E p \in Execs : Share_Upload(p)
    \/ \E p \in Execs : Share_Finally(p)

SpecShare == ShareInit /\ [][ShareNext]_vars

\* ----------------------------------------------------- process_webm_to_mp4
\* the upload is missing, not a .webm, or a .webm; mkdtemp, the write of
\* the upload, the opening of the converted file and rmtree end with or
\* without an exception; the conversion reports success with or without
\* an output file, reports an error, or raises
ConvertEnvs ==
    [upload : {"missing", "other", "webm"},
     mkdtemp_ok : BOOLEAN, save_ok : BOOLEAN,
     convert : {"success", "success_nofile", "error", "raises"},
     open_ok : BOOLEAN, rmtree_ok : BOOLEAN]

\* "if 'response' not in locals() and temp_dir", then cleanup_temp_dir's
\* own test
CleansUp(bound, dir) == ~bound /\ dir = "exists"

ConvertInit ==
    /\ BatchAtRest
    /\ WalkAtRest
    /\ DedupAtRest
    /\ ZoneAtRest
    /\ ExtractAtRest
    /\ LinksAtRest
    /\ ApiAtRest
    /\ SanAtRest
    /\ EmailAtRest
    /\ AuthAtRest
    /\ ShareAtRest
    /\ cv_env \in ConvertEnvs
    /\ cv_pc = "start"
    /\ cv_dir = "none"
    /\ cv_bound = FALSE
    /\ cv_response = "none"

\* the except clause: a JsonResponse with status 500 is returned, which
\* the return statement does not bind to the name response
ConvertFails ==
    /\ cv_pc' = "finally"
    /\ cv_response' = "500"

Convert_Validate ==
    /\ cv_pc = "start"
    /\ IF cv_env.upload = "webm"
       THEN cv_pc' = "mkdtemp" /\ UNCHANGED cv_response
       ELSE cv_pc' = "done" /\ cv_response' = "400"
    /\ UNCHANGED <<cv_env, cv_dir, cv_bound, notConvert>>

Convert_Mkdtemp ==
    /\ cv_pc = "mkdtemp"
    /\ IF cv_env.mkdtemp_ok
       THEN cv_dir' = "exists" /\ cv_pc' = "save" /\ UNCHANGED cv_response
       ELSE ConvertFails /\ UNCHANGED cv_dir
    /\ UNCHANGED <<cv_env, cv_bound, notConvert>>

Convert_Save ==
    /\ cv_pc = "save"
    /\ IF cv_env.save_ok
       THEN cv_pc' = "convert" /\ UNCHANGED cv_response
       ELSE ConvertFails
    /\ UNCHANGED <<cv_env, cv_dir, cv_bound, notConvert>>

Convert_Convert ==
    /\ cv_pc = "convert"
    /\ IF cv_env.convert = "success"
       THEN cv_pc' = "respond" /\ UNCHANGED cv_response
       ELSE ConvertFails
    /\ UNCHANGED <<cv_env, cv_dir, cv_bound, notConvert>>

\* "response = FileResponse(open(output_file_path, 'rb'), ...)"
Convert_Respond ==
    /\ cv_pc = "respond"
    /\ IF cv_env.open_ok
       THEN /\ cv_bound' = TRUE
            /\ cv_response' = "file"
            /\ cv_pc' = "finally"
       ELSE ConvertFails /\ UNCHANGED cv_bound
    /\ UNCHANGED <<cv_env, cv_dir, notConvert>>

Convert_Finally ==
    /\ cv_pc = "finally"
    /\ cv_dir' = IF CleansUp(cv_bound, cv_dir)
                 THEN IF cv_env.rmtree_ok THEN "removed" ELSE "rmtree_failed"
                 ELSE cv_dir
    /\ cv_pc' = IF cv_response = "file" THEN "stream" ELSE "done"
    /\ UNCHANGED <<cv_env, cv_bound, cv_response, notConvert>>

\* the framework streams the FileResponse and closes it; the attribute
\* cleanup_paths set on it is read by nothing
Convert_Stream ==
    /\ cv_pc = "stream"
    /\ cv_pc' = "done"
    /\ UNCHANGED <<cv_env, cv_dir, cv_bound, cv_response, notConvert>>

ConvertNext ==
    \/ Convert_Validate
    \/ Convert_Mkdtemp
    \/ Convert_Save
    \/ Convert_Convert
    \/ Convert_Respond
    \/ Convert_Finally
    \/ Convert_Stream

SpecConvert == ConvertInit /\ [][ConvertNext]_vars

\* the view and the framework keep running until the response is sent
FairSpecConvert == SpecConvert /\ WF_vars(ConvertNext)

\* --------------------------------------------------------- process_batches
PyNone == "None"

\* the strings a reply holds
ReplyValues == {"0.60", "1.20"}

\* what client.models.generate_content and json.loads give for a batch of
\* expected_len rows: a list, shorter or longer than the batch or as long,
\* something that is not a list, or an exception
Replies(expected_len) ==
    {[kind |-> "list", val |-> v] :
        v \in UNION {[1..n -> ReplyValues] : n \in 0..(expected_len + 1)}}
    \cup {[kind |-> "nonlist", val |-> <<>>], [kind |-> "raises", val |-> <<>>]}

\* "[None] * n"
Nones(n) == [k \in 1..n |-> PyNone]

\* "df_column.iloc[i:i + batch_size].tolist()"
BatchAt(df_column, i, batch_size) ==
    SubSeq(df_column, i + 1, Min(i + batch_size, Len(df_column)))

\* the length of the reply, were it taken as it comes
KeepLength(batch_results, expected_len) == batch_results

\* the reply cut or padded to the length of the batch
ForceLength(batch_results, expected_len) ==
    IF Len(batch_results) > expected_len
    THEN SubSeq(batch_results, 1, expected_len)
    ELSE IF Len(batch_results) < expected_len
    THEN batch_results \o Nones(expected_len - Len(batch_results))
    ELSE batch_results

\* what one batch adds to all_results
BatchResults(reply, expected_len) ==
    IF reply.kind = "list" THEN ForceLength(reply.val, expected_len)
    ELSE Nones(expected_len)

BatchInit ==
    /\ WalkAtRest
    /\ DedupAtRest
    /\ ZoneAtRest
    /\ ExtractAtRest
    /\ LinksAtRest
    /\ ApiAtRest
    /\ SanAtRest
    /\ EmailAtRest
    /\ AuthAtRest
    /\ ShareAtRest
    /\ ConvertAtRest
    /\ rb_column \in {[k \in 1..n |-> k] : n \in 0..MaxColumn}
    /\ rb_i = 0
    /\ rb_replies = <<>>
    /\ rb_results = <<>>
    /\ rb_pc = "loop"

\* one pass of the loop over the batches
Batch_Step ==
    /\ rb_pc = "loop"
    /\ rb_i < Len(rb_column)
    /\ LET expected_len == Len(BatchAt(rb_column, rb_i, BatchSize))
       IN  \E reply \in Replies(expected_len) :
              /\ rb_replies' = Append(rb_replies, reply)
              /\ rb_results' = rb_results \o BatchResults(reply, expected_len)
    /\ rb_i' = rb_i + BatchSize
    /\ UNCHANGED <<rb_column, rb_pc, notBatch>>

Batch_Return ==
    /\ rb_pc = "loop"
    /\ rb_i >= Len(rb_column)
    /\ rb_pc' = "returned"
    /\ UNCHANGED <<rb_column, rb_i, rb_replies, rb_results, notBatch>>

BatchNext ==
    \/ Batch_Step
    \/ Batch_Return

SpecBatch == BatchInit /\ [][BatchNext]_vars

\* ================================================================ claims
RECURSIVE SelfAndAncestors(_)
SelfAndAncestors(f) ==
    IF f = 0 THEN {} ELSE {f} \cup SelfAndAncestors(parent[f])

Returned == runState \in {"complete", "autherror"}

\* C1: when the run is complete, process_video_links_internal has been
\* called exactly once for every folder that directly holds a PPTX and never
\* for another folder (K calls for K trigger folders).
C1_OneCallPerTriggerFolder ==
    runState = "complete" =>
        \A f \in Folders : calls[f] = IF pptx[f] > 0 THEN 1 ELSE 0

\* C2: the sub-folders crawl got for a folder are all the sub-folders of the
\* folder, also those the listing holds behind a continuation token, and a
\* folder declared to hold no PPTX holds none.
C2_AllPagesRead ==
    /\ \A f \in DOMAIN enumerated : Range(enumerated[f]) = Children(f)
    /\ \A f \in noPptxDeclared : pptx[f] = 0

C4_SubfoldersVisitedAfterPipelineError ==
    runState = "complete" =>
        \A f \in Folders :
           (/\ visits[f] = 1
            /\ f \notin moreSubs
            /\ <<f, "listpptx">> \notin caught
            /\ <<f, "listsub">> \notin caught)
           => \A g \in Children(f) : visits[g] = 1

\* C5: the pipeline runs at most once for a folder, and the PPTX it downloads
\* and scans for links is the first entry of the listing
\* find_pptx_in_drive_folder got, and no other.
C5_FirstPptxOnly ==
    /\ \A f \in Folders : calls[f] <= 1
    /\ scanned \subseteq pptxDownloaded
    /\ pptxDownloaded \subseteq
          (IF listedPptx = <<>> THEN {} ELSE {listedPptx[1]})
    /\ proc.pc \in {"extract", "links", "video_download", "video_upload"}
          => pptxDownloaded = {listedPptx[1]}
    /\ proc.pc \in {"links", "video_download", "video_upload"}
          => scanned = {listedPptx[1]}

\* a pipeline run whose listing held several PPTX files and that scanned one
C5_Witness ==
    /\ Len(listedPptx) >= 2
    /\ proc.pc = "links"
    /\ scanned = {listedPptx[1]}

Occurrences(l) ==
    {i \in 1..Len(found_links_with_names) : found_links_with_names[i].link = l}

\* C7 as stated: one entry per distinct URL of the input, whose name is
\* non-null whenever an occurrence of the URL had a non-null name, and None
\* only when every occurrence had None
C7_NonNullNameWins ==
    dedupResult.some =>
        LET out == dedupResult.val IN
        /\ {out[i].link : i \in 1..Len(out)} =
               {found_links_with_names[i].link :
                    i \in 1..Len(found_links_with_names)}
        /\ \A i, j \in 1..Len(out) : out[i].link = out[j].link => i = j
        /\ \A i \in 1..Len(out) :
               out[i].name.some <=>
                   \E k \in Occurrences(out[i].link) :
                       found_links_with_names[k].name.some

\* C7, amended: the de-duplication returns exactly one entry per distinct URL
\* of the input; the entry's name is a non-empty name seen for that URL (the
\* first one) whenever an occurrence had a non-empty name, whatever the order
\* of the occurrences, and otherwise it is the name of the first occurrence,
\* which is None or empty
C7_NonEmptyNameWins ==
    dedupResult.some =>
        LET out == dedupResult.val IN
        /\ {out[i].link : i \in 1..Len(out)} =
               {found_links_with_names[i].link :
                    i \in 1..Len(found_links_with_names)}
        /\ \A i, j \in 1..Len(out) : out[i].link = out[j].link => i = j
        /\ \A i \in 1..Len(out) :
               LET occ == Occurrences(out[i].link)
                   named == {k \in occ : Truthy(found_links_with_names[k].name)}
               IN  IF named # {}
                   THEN out[i].name =
                            found_links_with_names[
                                CHOOSE k \in named : \A m \in named : k <= m].name
                   ELSE out[i].name =
                            found_links_with_names[
                                CHOOSE k \in occ : \A m \in occ : k <= m].name

\* a URL found first without a name and later with one has been returned
\* with the later name
C7_Witness ==
    /\ dedupResult.some
    /\ \E i, j \in 1..Len(found_links_with_names) :
           /\ i < j
           /\ found_links_with_names[i].link = found_links_with_names[j].link
           /\ ~Truthy(found_links_with_names[i].name)
           /\ Truthy(found_links_with_names[j].name)
           /\ \E k \in 1..Len(dedupResult.val) :
                  dedupResult.val[k] = found_links_with_names[j]

\* the zone name the first slide yields is missing or empty after trimming
ZoneMissingOrEmpty ==
    \/ ~first_slide.some
    \/ ~ZoneMatch(SlideText(first_slide.val)).some
    \/ CleanValue(ZoneMatch(SlideText(first_slide.val)).val) = <<>>

\* C9: a call returns a market name only together with a non-empty zone
\* name; when the zone is not found or is empty after trimming, the market
\* search does not run, the market is None and get_market_name_prefix
\* returns the empty prefix
C9_MarketNeedsZone ==
    zoneCall # "none" =>
        /\ zoneResult.market.some =>
               zoneResult.zone.some /\ zoneResult.zone.val # <<>>
        /\ ZoneMissingOrEmpty =>
               /\ ~zoneResult.searched
               /\ ~zoneResult.market.some
               /\ zoneResult.prefix = <<>>

\* a call has returned an empty zone for a slide with a line that the market
\* pattern of an empty zone matches, and has not searched
C9_Witness ==
    /\ zoneCall = "utils"
    /\ first_slide.some
    /\ first_slide.val = <<ParaZoneEmptyState, ParaMarketNoZone>>
    /\ zoneResult.zone = SomeText(<<>>)
    /\ ~zoneResult.searched

ZoneNorth == <<"N","o","r","t","h">>

\* C10: the first slide "ZONE : North\nNorth 1_Delhi_Market\n" yields the
\* zone "North" and the market "North 1_Delhi_Market", and a zone value never
\* runs past the end of the line of "ZONE :"
C10_ZoneEndsAtLineEnd ==
    zoneCall \in {"utils", "views"} =>
        /\ (first_slide.some /\ first_slide.val = <<ParaZoneNorth, ParaMarketNorth>>) =>
               /\ zoneResult.zone = SomeText(ZoneNorth)
               /\ zoneResult.market = SomeText(ParaMarketNorth)
        /\ zoneResult.zone.some =>
               \A i \in 1..Len(zoneResult.zone.val) : zoneResult.zone.val[i] # "\n"

\* no shape of the target slide yields a value for key (no slide was scanned
\* when the call returned before it had a target slide)
Unmatched(key) ==
    \/ ~target_slide.some
    \/ \A i \in 1..Len(target_slide.val.shapes) :
           LET shape == target_slide.val.shapes[i] IN
           \/ shape.kind = "picture"
           \/ ~extract_field_value(ShapeText(shape), key).some

\* C8 as stated: on every return path the mapping holds every key of
\* KEYS_TO_FIND, and a key that was not matched carries "N/A"
C8_UnmatchedKeysAreNotFound ==
    extractPc = "returned" =>
        \A key \in Range(KEYS_TO_FIND) :
            /\ key \in DOMAIN results
            /\ Unmatched(key) => results[key] = NOT_FOUND

\* C8, amended: on every return path the mapping holds every key of
\* KEYS_TO_FIND; when the file was opened and the target slide found, no key
\* is left empty and a key that was not matched carries "N/A"; when the file
\* cannot be opened or the target slide is not found, every key carries the
\* empty string and the mapping has an "error" entry besides
C8_KeysPresentOnEveryPath ==
    extractPc = "returned" =>
        /\ Range(KEYS_TO_FIND) \subseteq DOMAIN results
        /\ IF target_slide.some
           THEN /\ DOMAIN results = Range(KEYS_TO_FIND)
                /\ \A key \in Range(KEYS_TO_FIND) :
                       /\ results[key] # <<>>
                       /\ Unmatched(key) => results[key] = NOT_FOUND
           ELSE /\ DOMAIN results = Range(KEYS_TO_FIND) \cup {ErrorKey}
                /\ results[ErrorKey] \in {CannotOpen, SlideNotFound}
                /\ \A key \in Range(KEYS_TO_FIND) : results[key] = <<>>

\* a call has returned from a target slide that yields a value for one key
\* and none for another
C8_Witness ==
    /\ extractPc = "returned"
    /\ target_slide.some
    /\ \E key \in Range(KEYS_TO_FIND) :
           Unmatched(key) /\ results[key] = NOT_FOUND
    /\ \E key \in Range(KEYS_TO_FIND) :
           ~Unmatched(key) /\ results[key] # NOT_FOUND

\* the data rows of a table
DataRows(rows) == 2..Len(rows)

\* C11: in a table with a name column, a link of a data row is found with
\* the text of the row's name cell, no item is named after a header cell
\* (every named item is a link of a data row with that row's name), links
\* outside tables are found without a name, and the table with header
\* ["Name", "Link"] and the row ["Store A", "https://youtu.be/abc123"] yields
\* exactly the link named "Store A"
C11_RowNameAssociated ==
    (link_result.some /\ link_exc = "none") =>
        /\ \A s \in 1..Len(link_shapes) :
              LET shape == link_shapes[s]
                  idx == NameColIdx(shape.rows, link_variant)
              IN  IF shape.kind # "table"
                  THEN \A k \in 1..Len(shape.links) :
                          \E i \in 1..Len(link_found) :
                             link_found[i] = Item(NoText, shape.links[k])
                  ELSE idx # 0 =>
                       /\ \A r \in DataRows(shape.rows), c \in 1..2 :
                             \A k \in 1..Len(shape.rows[r][c].links) :
                                \E i \in 1..Len(link_found) :
                                   link_found[i] =
                                       Item(RowName(shape.rows[r], idx),
                                            shape.rows[r][c].links[k])
                       /\ \A i \in 1..Len(link_found) :
                             link_found[i].name.some =>
                                \E r \in DataRows(shape.rows), c \in 1..2 :
                                   \E k \in 1..Len(shape.rows[r][c].links) :
                                      link_found[i] =
                                          Item(RowName(shape.rows[r], idx),
                                               shape.rows[r][c].links[k])
        /\ link_shapes =
               <<LinkTableShape(<<
                   <<Cell(HeaderName, <<>>), Cell(HeaderLink, <<>>)>>,
                   <<Cell(NameStoreA, <<>>), Cell(UrlText, <<YoutubeLink>>)>> >>)>>
           => link_result.val = <<Item(SomeText(NameStoreA), YoutubeLink)>>

\* C12: a link that matches the Drive pattern is handled as internal, with
\* the Drive metadata request, also when it matches the YouTube pattern; a
\* link that matches the YouTube pattern only is handled as external; for any
\* other link there is no existence query, no download and no upload
C12_ClassificationPrecedence ==
    \A l \in DOMAIN linkLog :
        LET log == linkLog[l] IN
        /\ DriveMatch(l) =>
               log[1] = "internal" /\ log[2] \in {"meta", "meta_raised"}
        /\ (~DriveMatch(l) /\ YoutubeMatch(l)) =>
               /\ log[1] = "external"
               /\ \A i \in 1..Len(log) : log[i] \notin {"meta", "meta_raised"}
        /\ (~DriveMatch(l) /\ ~YoutubeMatch(l)) => log = <<"unsupported">>

\* a pipeline run has downloaded a link that matches both patterns through
\* the Drive branch and has skipped an unsupported link
C12_Witness ==
    /\ BothLink \in DOMAIN linkLog
    /\ linkLog[BothLink][1] = "internal"
    /\ \E i \in 1..Len(linkLog[BothLink]) : linkLog[BothLink][i] = "downloaded"
    /\ OtherLink \in DOMAIN linkLog
    /\ linkLog[OtherLink] = <<"unsupported">>

\* the steps of a link's log that fetch or store the video
FetchSteps ==
    {"downloaded", "downloaded_small", "download_failed", "uploaded",
     "upload_failed"}

\* C13: for every supported link the existence query for the destination
\* name is answered before the download starts, and when the folder holds a
\* file of that name the link is neither downloaded nor uploaded
C13_ExistingFileNotFetched ==
    \A l \in DOMAIN linkLog :
        LET log == linkLog[l] IN
        /\ \A i \in 1..Len(log) :
              log[i] \in FetchSteps =>
                  \E j \in 1..(i - 1) : log[j] \in {"exists_true", "exists_false"}
        /\ (\E i \in 1..Len(log) : log[i] = "held") =>
              \A i \in 1..Len(log) : log[i] \notin FetchSteps

\* C14: a downloaded file below 1024 bytes is never passed to the upload, it
\* is gone from the scratch directory when the loop takes the next link, and
\* every upload call follows a download of at least 1024 bytes
C14_SmallFileNotUploaded ==
    /\ \A l \in DOMAIN linkLog :
          LET log == linkLog[l] IN
          \A i \in 1..Len(log) :
              /\ log[i] = "downloaded_small" =>
                    \A j \in (i + 1)..Len(log) :
                        log[j] \notin {"uploaded", "upload_failed"}
              /\ log[i] \in {"uploaded", "upload_failed"} =>
                    i > 1 /\ log[i - 1] = "downloaded"
    /\ (proc.pc = "links" /\ proc.idx > 1) =>
          LET l == proc.links[proc.idx - 1].link IN
          (/\ l \in DOMAIN linkLog
           /\ \E i \in 1..Len(linkLog[l]) : linkLog[l][i] = "downloaded_small")
          => sanitize_filename(proc.finalName) \notin scratch[proc.folder].files

\* a small file was downloaded and removed, and the loop is at the next link
C14_Witness ==
    /\ proc.pc = "links" /\ proc.idx > 1
    /\ LET l == proc.links[proc.idx - 1].link IN
       /\ l \in DOMAIN linkLog
       /\ linkLog[l][Len(linkLog[l])] = "removed"
       /\ \E i \in 1..Len(linkLog[l]) : linkLog[l][i] = "downloaded_small"
    /\ scratch[proc.folder].exists

\* C15: a failure while one link is handled stays with that link: when
\* control leaves the loop over the links every link of the list has been
\* handled and no exception is on its way to the caller
C15_LinkFailureConfined ==
    (proc.pc = "finally" /\ proc.links # <<>>) =>
        /\ ~proc.raising
        /\ \A i \in 1..Len(proc.links) : proc.links[i].link \in DOMAIN linkLog

\* the destination names of the supported links of the walked document
SupportedNames ==
    LET links  == extract_all_potential_links(doc)
        prefix == PrefixForFilename(doc.market_name_prefix_raw)
    IN  {IF Classify(links[i].link) = "internal"
         THEN DriveFinalName(prefix, links[i].name, links[i].link)
         ELSE YoutubeFinalName(prefix, links[i].name) :
            i \in {k \in 1..Len(links) : Classify(links[k].link) # "unsupported"}}

\* when this run began, folder f held the video of every supported link
AlreadyUploaded(f) ==
    /\ pptx[f] > 0
    /\ \A name \in SupportedNames : name \in Range(run.before[f])

\* C18: a later run on a folder that already holds the video of every
\* supported link downloads no video, uploads nothing and leaves the files of
\* the folder as they were
C18_RerunIdempotent ==
    run.n > 1 =>
        \A f \in Folders :
            AlreadyUploaded(f) =>
                /\ remote[f] = run.before[f]
                /\ proc.folder = f =>
                      \A l \in DOMAIN linkLog :
                          \A i \in 1..Len(linkLog[l]) :
                              linkLog[l][i] \notin FetchSteps

\* C19: when a pipeline run is over, by its last statement, by an early
\* return or by an exception, the scratch directory of its folder is gone
\* unless the rmtree of the finally clause failed on it
C19_ScratchRemoved ==
    \A f \in Folders :
        (scratch[f].exists /\ ~(proc.pc # "idle" /\ proc.folder = f)) =>
            scratch[f].rmtree = "failed"

\* a pipeline run that created its scratch directory was left by an
\* exception, and the directory is gone
C19_Witness ==
    /\ exc
    /\ proc.pc = "idle"
    /\ \E f \in Folders :
          /\ calls[f] = 1
          /\ ~scratch[f].exists
          /\ scratch[f].rmtree = "done"

\* C20: a failed authentication ends the run, or the pipeline call, at once:
\* the entry point returns without raising, no folder is listed or entered,
\* no scratch directory is created and nothing is downloaded or uploaded
C20_AuthFailureAborts ==
    [][/\ (runState = "start" /\ faults' > faults) =>
              /\ runState' = "autherror"
              /\ UNCHANGED <<stack, exc, proc, scratch, remote, crawlHist,
                             calls, pipeHist>>
       /\ (proc.pc = "auth" /\ faults' > faults) =>
              /\ proc'.pc = "idle"
              /\ ~exc'
              /\ UNCHANGED <<scratch, remote, crawlHist, calls, pipeHist>>
      ]_vars

\* C16: the uploader updates the one file of the name in place, or creates
\* the file when there is none: after two calls that returned an id, on a
\* folder that held at most one non-trashed file of the name, both ids are
\* the same and the folder holds exactly one non-trashed file of the name
C16_UploadTwiceOneFile ==
    (/\ up_pc = "done"
     /\ Len(up_ids) >= 2
     /\ \A k \in 1..Len(up_ids) : up_ids[k] # 0
     /\ Cardinality(Matching(drive_before, TargetName, FALSE)) <= 1) =>
        /\ \A k \in 1..Len(up_ids) : up_ids[k] = up_ids[1]
        /\ Matching(drive, TargetName, FALSE) = {up_ids[1]}
        /\ up_ids[1] \in Matching(drive_before, TargetName, FALSE)
              \/ Matching(drive_before, TargetName, FALSE) = {}

\* C17: callers of find_or_create_folder that overlap create at most one
\* folder: when all have returned an id, on a parent that held at most one
\* non-trashed folder of the name, exactly one such folder exists and every
\* caller got its id
C17_OneFolderForConcurrentCallers ==
    (/\ fo_pc # <<>>
     /\ \A c \in DOMAIN fo_pc : fo_pc[c] = "done" /\ fo_result[c] # 0
     /\ Cardinality(Matching(drive_before, TargetName, TRUE)) <= 1) =>
        /\ Cardinality(Matching(drive, TargetName, TRUE)) = 1
        /\ \A c \in DOMAIN fo_pc :
              fo_result[c] \in Matching(drive, TargetName, TRUE)
        /\ Len(drive) <= Len(drive_before) + 1

\* C21: the link extractor never raises to its caller, and it returns the
\* empty list when the path does not exist or is no .pptx, when the file
\* cannot be read, when the presentation has no slide, and when an error is
\* met while the shapes are walked
C21_ExtractorNeverRaises ==
    /\ link_exc # "raised"
    /\ (~LinksRunning /\ (link_file # "ok" \/ link_exc = "caught")) =>
          link_result = Returns(<<>>)

\* an error was met after links had been found, and the empty list came back
C21_Witness ==
    /\ link_exc = "caught"
    /\ link_found # <<>>
    /\ link_result = Returns(<<>>)

\* C22: for every file name the result of sanitize_filename is non-empty,
\* holds none of the characters \ / : * ? " < > | and holds no character
\* with a code below 32
C22_SanitizedNameIsClean ==
    san_result.some =>
        /\ san_result.val # <<>>
        /\ \A i \in 1..Len(san_result.val) :
              /\ san_result.val[i] \notin IllegalNameChars
              /\ ~IsControl(san_result.val[i])

\* C23: every entry of the results list that check_email_and_upload
\* returns carries source_email_id, and every message of the search has at
\* least one entry with its id.
C23_EveryMessageHasEntry ==
    em_response = "results" =>
        /\ \A k \in 1..Len(em_results) :
              "source_email_id" \in DOMAIN em_results[k]
        /\ \A i \in 1..Len(em_messages) :
              \E k \in 1..Len(em_results) :
                 em_results[k].source_email_id = i

\* a returned list with an entry for a message without files, one for a
\* file main_processor raised on and one for an uploaded file
C23_Witness ==
    /\ em_response = "results"
    /\ \E k \in 1..Len(em_results) : em_results[k] = NoFilesEntry(1)
    /\ \E k \in 1..Len(em_results) :
          /\ "error" \in DOMAIN em_results[k]
          /\ em_results[k].error = "skipped"
    /\ \E k \in 1..Len(em_results) : "message" \in DOMAIN em_results[k]

\* C27: when check_email_and_upload has returned, every temporary
\* directory download_attachment made is gone, unless its removal itself
\* failed.
C27_TempDirsRemoved ==
    em_pc = "returned" => \A i \in 1..Len(em_dirs) : em_dirs[i] # "exists"

\* C24: a returned service is built from valid credentials only, and only
\* valid credentials are written to the token file; valid stored
\* credentials are used without the flow and without a write; refreshed
\* credentials are written; absent, unreadable or unrefreshable
\* credentials start the consent flow when the client secrets file exists.
C24_OnlyValidCredentials ==
    au_pc = "done" =>
        /\ au_result \in {"none", "raised", "valid"}
        /\ au_saved \in {"nothing", "valid"}
        /\ au_env.token = "valid" =>
              (~au_flowed /\ au_saved = "nothing"
               /\ (au_env.build_ok => au_result = "valid"))
        /\ (au_env.token = "refreshable" /\ au_env.refresh_ok
            /\ au_env.save_ok) => au_saved = "valid"
        /\ (au_env.token \in {"absent", "unreadable", "unrefreshable"}
            /\ au_env.credentials_file) => au_flowed

\* how many steps of the log are of the given kinds
StepCount(log, kinds) == Cardinality({i \in 1..Len(log) : log[i] \in kinds})

\* C25: within one call of process_video_links_internal each link is
\* taken up at most once, and its existence query, its download and its
\* upload are each attempted at most once, whether they fail or not.
C25_NoRetry ==
    \A l \in DOMAIN linkLog :
        /\ StepCount(linkLog[l], {"internal", "external", "unsupported"}) <= 1
        /\ StepCount(linkLog[l],
                     {"exists_true", "exists_false", "exists_raised"}) <= 1
        /\ StepCount(linkLog[l],
                     {"downloaded", "downloaded_small", "download_failed"}) <= 1
        /\ StepCount(linkLog[l], {"uploaded", "upload_failed"}) <= 1

\* a link whose download failed, and the loop has since gone on to the
\* next link
C25_Witness ==
    \E l, k \in DOMAIN linkLog :
        /\ l # k
        /\ StepCount(linkLog[l], {"download_failed"}) = 1
        /\ StepCount(linkLog[k], {"unsupported"}) = 1

\* execution p takes the step that removes its scratch directory
RemovalStep(p) ==
    /\ sh_pc[p] \in {"setup", "finally"}
    /\ sh_pc'[p] # sh_pc[p]
    /\ sh_disk[sh_path[p]].exists

\* C26: when an execution removes its scratch directory, at start-up or
\* in its final cleanup, while another execution has downloaded a file
\* and not yet uploaded it, that file is deleted if the two were given
\* the same path, and is left alone if they were not.
C26_SharedScratchInterferes ==
    [][\A p, q \in Execs :
          (p # q /\ RemovalStep(p) /\ Pending(q)
           /\ sh_name[q] \in sh_disk[sh_path[q]].files) =>
              IF sh_path[p] = sh_path[q]
              THEN sh_name[q] \notin sh_disk'[sh_path[q]].files
              ELSE sh_disk'[sh_path[q]] = sh_disk[sh_path[q]]]_vars

\* one execution lost its downloaded file to the start-up removal of
\* another, and one to the final cleanup of another
C26_Witness ==
    /\ \E q \in Execs : sh_lost[q] = "startup" /\ ~sh_uploaded[q]
                        /\ sh_pc[q] = "done"
    /\ \E q \in Execs : sh_lost[q] = "cleanup" /\ ~sh_uploaded[q]
                        /\ sh_pc[q] = "done"

\* C28: the temporary directory process_webm_to_mp4 made is eventually
\* removed (or its removal was tried and failed), on every path.
C28_TempDirEventuallyRemoved ==
    (cv_dir = "exists") ~> (cv_dir \in {"removed", "rmtree_failed"})

\* what row k of the input is due: the string the reply for its batch
\* holds at its position in the batch, None when the reply has none
EntryDue(k) ==
    LET b   == ((k - 1) \div BatchSize) + 1
        pos == ((k - 1) % BatchSize) + 1
    IN  IF rb_replies[b].kind = "list" /\ pos <= Len(rb_replies[b].val)
        THEN rb_replies[b].val[pos] ELSE PyNone

\* C29: the list process_batches returns is as long as the input column,
\* and entry k is what the reply for row k's batch holds at row k's
\* position, or None.
C29_OneEntryPerRow ==
    rb_pc = "returned" =>
        /\ Len(rb_results) = Len(rb_column)
        /\ \A k \in 1..Len(rb_results) : rb_results[k] = EntryDue(k)

\* a returned list after a reply that was too long, one that was too
\* short and a call that raised
C29_Witness ==
    /\ rb_pc = "returned"
    /\ Len(rb_replies) = 3
    /\ rb_replies[1].kind = "list" /\ Len(rb_replies[1].val) > BatchSize
    /\ rb_replies[2].kind = "list" /\ Len(rb_replies[2].val) < BatchSize
    /\ rb_replies[3].kind = "raises"

\* C30: within one run no folder receives two files of the same name: of
\* two links that compute the same destination name only the first is
\* uploaded.
C30_OneUploadPerName ==
    \A f \in Folders :
        \A i, j \in 1..Len(remote[f]) :
            remote[f][i] = remote[f][j] => i = j

====
